---- MODULE Spec2Model ----
(***************************************************************************)
(* image-prompt-mcp: prompt generation (generatePrompt), sampling          *)
(* capability checks (checkSamplingSupport,                                *)
(* checkDetailedSamplingCapabilities), the sampling gateway                *)
(* (handleSamplingRequest) and the generateImage tool handler.             *)
(***************************************************************************)
EXTENDS Integers, Sequences, FiniteSets, TLC

VARIABLES
    params,         \* generatePrompt: the params argument (an object: slot -> value)
    template,       \* generatePrompt / generateImage: the template, or NoTemplate
    mergedParams,   \* generatePrompt: mergedParams, or NotComputed
    promptResult,   \* outcome of the generatePrompt call, or NotComputed
    promptPc,       \* "input" before the call, "called" after it, "unused"
    extra,          \* the request handler's extra argument (client capabilities)
    supportsSampling,       \* outcome of checkSamplingSupport(extra), or NotComputed
    samplingCapabilities,   \* outcome of checkDetailedSamplingCapabilities(extra), or NotComputed
    templates,      \* the template store: let templates: Template[]
    server,         \* the server object the tools are registered on (its sampling property)
    imageParams,    \* generateImage: the handler's params argument, or NotComputed
    samplingRequest,    \* the request handed to server.sampling.createMessage, or Undefined
    createMessageCalls, \* calls of server.sampling.createMessage made by the current request
    samplingOutcome,    \* how the createMessage promise settled, or NotComputed
    cancelled,      \* the transport cancelled the request (extra.signal.aborted)
    lookedUp,       \* history: the template as getTemplateById returned it to the request
    toolResult,     \* what the generateImage handler settles to, or NotComputed
    files,          \* the template files on disk: records [category, id, content]
    tasks,          \* the template tool calls suspended at an await, in call order
    storeResult,    \* the last template tool call that settled, or NotComputed
    clock,          \* the time new Date() reads
    calls,          \* the number of tool calls made so far
    pc              \* generateImage handler: "idle", "awaiting" (createMessage pending), "done"

promptVars == <<params, template, mergedParams, promptResult, promptPc>>

checkerVars == <<extra, supportsSampling, samplingCapabilities>>

imageVars == <<templates, server, imageParams, samplingRequest, createMessageCalls,
               samplingOutcome, cancelled, lookedUp, toolResult, pc>>

storeVars == <<files, tasks, storeResult, clock, calls>>

vars == <<promptVars, checkerVars, imageVars, storeVars>>

(***************************************************************************)
(* JavaScript values and objects                                           *)
(***************************************************************************)

\* A string value.
Str(s) == [t |-> "string", v |-> s]

\* A value that is not a string (the tests pass subject: 123).
NotAString == [t |-> "number", v |-> "123"]

IsString(x) == x.t = "string"

\* JavaScript truthiness of a value: "" is falsy, 123 and non-empty strings are truthy.
Truthy(x) == IF IsString(x) THEN Len(x.v) > 0 ELSE TRUE

\* Object spread { ...a, ...b }: b's own keys win over a's.
Spread(a, b) == [k \in (DOMAIN a) \cup (DOMAIN b) |-> IF k \in DOMAIN b THEN b[k] ELSE a[k]]

\* The object with no keys.
EmptyObject == [k \in {} |-> Str("")]

NoTemplate == [none |-> TRUE]

NotComputed == [pending |-> TRUE]

(***************************************************************************)
(* PromptGenerationParams and generatePrompt                               *)
(***************************************************************************)

\* The keys of the PromptGenerationParams schema, in declaration order.
SlotOrder == <<"subject", "action", "environment", "cameraAngle", "style", "details",
               "lighting", "mood", "technical", "quality", "negativePrompt">>

Slots == {SlotOrder[i] : i \in 1..Len(SlotOrder)}

RECURSIVE Join(_, _)
\* Array.prototype.join
Join(seq, sep) ==
    IF seq = <<>> THEN ""
    ELSE IF Len(seq) = 1 THEN seq[1]
    ELSE seq[1] \o sep \o Join(Tail(seq), sep)

\* Mutant of SchemaAccepts: subject without .min(1).
SchemaAccepts_NoMin(obj) ==
    /\ "subject" \in DOMAIN obj
    /\ IsString(obj["subject"])
    /\ \A k \in (DOMAIN obj) \cap Slots : IsString(obj[k])

\* Mutant of SchemaAccepts: only subject is validated.
SchemaAccepts_SubjectOnly(obj) ==
    /\ "subject" \in DOMAIN obj
    /\ IsString(obj["subject"])
    /\ Len(obj["subject"].v) >= 1

\* PromptGenerationParams.parse succeeds: subject is z.string().min(1), the other
\* ten keys are z.string().optional().
SchemaAccepts(obj) ==
    /\ "subject" \in DOMAIN obj
    /\ IsString(obj["subject"])
    /\ Len(obj["subject"].v) >= 1
    /\ \A k \in (DOMAIN obj) \cap Slots : IsString(obj[k])

\* The parsed object: zod strips the keys the schema does not know.
SchemaOutput(obj) == [k \in (DOMAIN obj) \cap Slots |-> obj[k]]

\* Mutant of MergeParams: the spread operands swapped, template defaults win.
MergeParams_TemplateWins(p, tpl) ==
    IF tpl # NoTemplate THEN Spread(p, tpl.parameters) ELSE p

\* mergedParams of generatePrompt.
MergeParams(p, tpl) ==
    IF tpl # NoTemplate THEN Spread(tpl.parameters, p) ELSE p

\* validatedParams.<slot> && `<label>: ${validatedParams.<slot>}`  (one array element;
\* <<>> stands for a falsy element that filter(Boolean) drops).
Component(validated, slot, label) ==
    IF slot \in DOMAIN validated /\ Truthy(validated[slot])
    THEN <<label \o ": " \o validated[slot].v>>
    ELSE <<>>

\* Mutant of Components: style listed before cameraAngle, camera labelled by its slot name.
Components_Reordered(validated) ==
    <<validated["subject"].v>>
    \o Component(validated, "action", "action")
    \o Component(validated, "environment", "environment")
    \o Component(validated, "style", "style")
    \o Component(validated, "cameraAngle", "cameraAngle")
    \o Component(validated, "details", "details")
    \o Component(validated, "lighting", "lighting")
    \o Component(validated, "mood", "mood")
    \o Component(validated, "technical", "technical")
    \o Component(validated, "quality", "quality")

\* The components array after .filter(Boolean).
Components(validated) ==
    <<validated["subject"].v>>
    \o Component(validated, "action", "action")
    \o Component(validated, "environment", "environment")
    \o Component(validated, "cameraAngle", "camera")
    \o Component(validated, "style", "style")
    \o Component(validated, "details", "details")
    \o Component(validated, "lighting", "lighting")
    \o Component(validated, "mood", "mood")
    \o Component(validated, "technical", "technical")
    \o Component(validated, "quality", "quality")

\* Mutant of PromptResultOf: the negative prompt is also rendered into the main prompt.
PromptResultOf_NegativeInPrompt(validated) ==
    IF "negativePrompt" \in DOMAIN validated /\ Truthy(validated["negativePrompt"])
    THEN [prompt |-> Join(Components(validated)
                          \o Component(validated, "negativePrompt", "negative"), ", "),
          negativePrompt |-> validated["negativePrompt"].v]
    ELSE [prompt |-> Join(Components(validated), ", ")]

\* The returned PromptResult object.
PromptResultOf(validated) ==
    LET mainPrompt == Join(Components(validated), ", ")
    IN  IF "negativePrompt" \in DOMAIN validated /\ Truthy(validated["negativePrompt"])
        THEN [prompt |-> mainPrompt, negativePrompt |-> validated["negativePrompt"].v]
        ELSE [prompt |-> mainPrompt]

\* generatePrompt(params, template): what the returned promise settles to.
generatePrompt(p, tpl) ==
    LET merged == MergeParams(p, tpl)
    IN  IF SchemaAccepts(merged)
        THEN [kind |-> "return", value |-> PromptResultOf(SchemaOutput(merged))]
        ELSE [kind |-> "throw", error |-> "Error: prompt parameter validation failed"]

(***************************************************************************)
(* checkSamplingSupport and checkDetailedSamplingCapabilities              *)
(***************************************************************************)

\* An optional field: <<>> when undefined, <<x>> when it holds x.
Undefined == <<>>

\* extra is null or undefined.
ExtraNull == [shape |-> "null"]

\* extra._meta is missing (or null): extra?._meta?.capabilities is undefined.
ExtraNoMeta == [shape |-> "noMeta"]

\* extra._meta holds no capabilities.
ExtraNoCapabilities == [shape |-> "noCapabilities"]

\* extra._meta.capabilities holds the sampling declaration decl.
ExtraWith(decl) == [shape |-> "capabilities", sampling |-> decl]

\* capabilities.sampling is missing.
SamplingMissing == [shape |-> "undefined"]

\* capabilities.sampling is an array holding the names (Array.prototype.includes
\* is membership, so the array is modelled by the set of its elements).
SamplingArray(names) == [shape |-> "array", names |-> names]

\* capabilities.sampling is an object with an includes(name) probe that answers
\* true exactly for the names, and the optional maxTokens and models.
SamplingProbe(names, maxTokens, models) ==
    [shape |-> "probe", names |-> names, maxTokens |-> maxTokens, models |-> models]

\* capabilities.sampling is an object without an includes method, such as {}.
SamplingPlainObject == [shape |-> "plainObject"]

\* !extra?._meta?.capabilities
NoCapabilities(ex) == ex.shape # "capabilities"

\* Mutant of SamplingIncludes: the probe object is never asked.
SamplingIncludes_ArrayOnly(decl, name) ==
    IF decl.shape = "array"
    THEN [kind |-> "return", value |-> name \in decl.names]
    ELSE [kind |-> "return", value |-> FALSE]

\* Array.isArray(sampling) ? sampling.includes(name) : sampling?.includes(name) ?? false
\* A call of the missing method of a plain object throws a TypeError.
SamplingIncludes(decl, name) ==
    IF decl.shape = "array" THEN [kind |-> "return", value |-> name \in decl.names]
    ELSE IF decl.shape = "undefined" THEN [kind |-> "return", value |-> FALSE]
    ELSE IF decl.shape = "probe" THEN [kind |-> "return", value |-> name \in decl.names]
    ELSE [kind |-> "throw", error |-> "TypeError: sampling.includes is not a function"]

\* Mutant of checkSamplingSupport: a client without capabilities counts as supporting.
checkSamplingSupport_DefaultTrue(ex) ==
    IF NoCapabilities(ex) THEN [kind |-> "return", value |-> TRUE]
    ELSE SamplingIncludes(ex.sampling, "createMessage")

\* checkSamplingSupport(extra): the value returned or the error thrown.
checkSamplingSupport(ex) ==
    IF NoCapabilities(ex) THEN [kind |-> "return", value |-> FALSE]
    ELSE SamplingIncludes(ex.sampling, "createMessage")

\* checkDetailedSamplingCapabilities(extra): the object returned or the error thrown.
checkDetailedSamplingCapabilities(ex) ==
    IF NoCapabilities(ex)
    THEN [kind |-> "return",
          value |-> [supportsCreateMessage |-> FALSE, supportsImages |-> FALSE]]
    ELSE LET createMessage == SamplingIncludes(ex.sampling, "createMessage")
             image == SamplingIncludes(ex.sampling, "image")
         IN  IF createMessage.kind = "throw" THEN createMessage
             ELSE IF image.kind = "throw" THEN image
             ELSE IF ex.sampling.shape = "array"
             THEN [kind |-> "return",
                   value |-> [supportsCreateMessage |-> createMessage.value,
                              supportsImages |-> image.value]]
             ELSE [kind |-> "return",
                   value |-> [supportsCreateMessage |-> createMessage.value,
                              supportsImages |-> image.value,
                              maxTokens |-> IF ex.sampling.shape = "probe"
                                            THEN ex.sampling.maxTokens ELSE Undefined,
                              supportedModels |-> IF ex.sampling.shape = "probe"
                                                  THEN ex.sampling.models ELSE Undefined]]

(***************************************************************************)
(* SpecChecker: the two capability checks applied to every shape of extra  *)
(***************************************************************************)

\* The feature names a declaration may list.
FeatureNames == {"createMessage", "image", "otherCapability"}

\* The sampling declarations a client may send.
SamplingDeclarations ==
    {SamplingMissing, SamplingPlainObject}
    \cup {SamplingArray(names) : names \in SUBSET FeatureNames}
    \cup {SamplingProbe(names, maxTokens, models) :
             names \in SUBSET FeatureNames,
             maxTokens \in {Undefined, <<1000>>},
             models \in {Undefined, <<"gpt-4">>}}

\* The shapes of extra.
Extras ==
    {ExtraNull, ExtraNoMeta, ExtraNoCapabilities}
    \cup {ExtraWith(decl) : decl \in SamplingDeclarations}

\* The variables of the capability checks when no check is modelled.
CheckerIdle ==
    /\ extra = ExtraNull
    /\ supportsSampling = NotComputed
    /\ samplingCapabilities = NotComputed

\* The variables of the generateImage handler when no request is modelled.
ImageIdle ==
    /\ templates = <<>>
    /\ server = [sampling |-> "undefined"]
    /\ imageParams = NotComputed
    /\ samplingRequest = <<>>
    /\ createMessageCalls = 0
    /\ samplingOutcome = NotComputed
    /\ cancelled = FALSE
    /\ lookedUp = NoTemplate
    /\ toolResult = NotComputed
    /\ pc = "unused"

\* The variables of the template tools when no template tool call is modelled.
StoreIdle ==
    /\ files = {}
    /\ tasks = <<>>
    /\ storeResult = NotComputed
    /\ clock = 0
    /\ calls = 0

\* The variables of generatePrompt when no call is modelled.
PromptIdle ==
    /\ params = EmptyObject
    /\ template = NoTemplate
    /\ mergedParams = NotComputed
    /\ promptResult = NotComputed
    /\ promptPc = "unused"

CheckerInit ==
    /\ extra \in Extras
    /\ supportsSampling = NotComputed
    /\ samplingCapabilities = NotComputed
    /\ PromptIdle
    /\ ImageIdle
    /\ StoreIdle

\* One call checkSamplingSupport(extra).
CallCheckSamplingSupport ==
    /\ supportsSampling = NotComputed
    /\ supportsSampling' = checkSamplingSupport(extra)
    /\ UNCHANGED <<extra, samplingCapabilities, promptVars, imageVars, storeVars>>

\* One call checkDetailedSamplingCapabilities(extra).
CallCheckDetailedSamplingCapabilities ==
    /\ samplingCapabilities = NotComputed
    /\ samplingCapabilities' = checkDetailedSamplingCapabilities(extra)
    /\ UNCHANGED <<extra, supportsSampling, promptVars, imageVars, storeVars>>

CheckerNext == CallCheckSamplingSupport \/ CallCheckDetailedSamplingCapabilities

SpecChecker == CheckerInit /\ [][CheckerNext]_vars

(***************************************************************************)
(* SpecPrompt: generatePrompt applied to bounded inputs                    *)
(***************************************************************************)

\* At most this many keys are set in params and template.parameters together.
MaxKeys == 3

ParamValues == {Str(""), Str("dog"), NotAString}

TemplateValues == {Str(""), Str("cat"), NotAString}

\* The objects over the eleven slots with at most n keys.
Objects(values, n) ==
    UNION {[D -> values] : D \in {D \in SUBSET Slots : Cardinality(D) <= n}}

\* A template record as generatePrompt's caller passes it.
TemplateWith(id, name, parameters, version) ==
    [id |-> id, name |-> name, category |-> "children-book",
     parameters |-> parameters, version |-> version, isActive |-> TRUE]

PromptInit ==
    /\ promptPc = "input"
    /\ mergedParams = NotComputed
    /\ promptResult = NotComputed
    /\ \E p \in Objects(ParamValues, MaxKeys) :
         /\ params = p
         /\ \/ template = NoTemplate
            \/ \E tp \in Objects(TemplateValues, MaxKeys - Cardinality(DOMAIN p)) :
                 template = TemplateWith("t1", "T1", tp, 1)
    /\ CheckerIdle
    /\ ImageIdle
    /\ StoreIdle

\* One call generatePrompt(params, template).
CallGeneratePrompt ==
    /\ promptPc = "input"
    /\ mergedParams' = MergeParams(params, template)
    /\ promptResult' = generatePrompt(params, template)
    /\ promptPc' = "called"
    /\ UNCHANGED <<params, template, checkerVars, imageVars, storeVars>>

PromptNext == CallGeneratePrompt

SpecPrompt == PromptInit /\ [][PromptNext]_vars

(***************************************************************************)
(* getTemplateById, handleSamplingRequest and the generateImage handler    *)
(***************************************************************************)

\* new Error(message), new TypeError(message)
ErrorOf(name, message) == [name |-> name, message |-> message]

\* new TemplateError(type, message)
TemplateError(type, message) == [name |-> "TemplateError", type |-> type, message |-> message]

\* new ImageGenerationError(type, message, details); details is Undefined or <<cause>>.
ImageGenerationError(type, message, details) ==
    [name |-> "ImageGenerationError", type |-> type, message |-> message, details |-> details]

Return(value) == [kind |-> "return", value |-> value]

Throw(error) == [kind |-> "throw", error |-> error]

\* Array.prototype.find: the first element with the id, as <<element>>, or Undefined.
FindById(store, id) ==
    LET found == {i \in 1..Len(store) : store[i].id = id}
    IN  IF found = {} THEN Undefined
        ELSE <<store[CHOOSE i \in found : \A j \in found : i <= j]>>

\* Mutant of getTemplateById: a version that differs from the stored one is ignored.
getTemplateById_AnyVersion(store, id, version) ==
    LET found == FindById(store, id)
    IN  IF found = Undefined
        THEN Throw(TemplateError("TEMPLATE_NOT_FOUND", "template does not exist"))
        ELSE Return(found[1])

\* getTemplateById(id, version) on the store: the template or the TemplateError thrown.
getTemplateById(store, id, version) ==
    LET found == FindById(store, id)
    IN  IF found = Undefined
        THEN Throw(TemplateError("TEMPLATE_NOT_FOUND", "template does not exist"))
        ELSE IF version # Undefined /\ version[1] # 0 /\ found[1].version # version[1]
        THEN Throw(TemplateError("TEMPLATE_NOT_FOUND", "template version does not exist"))
        ELSE Return(found[1])

\* The defaults of the ImageGenerationParams schema.
DefaultWidth == 512

DefaultHeight == 512

DefaultSamplingSteps == 20

\* z.number()...optional().default(d): the value the handler receives for a
\* parameter the caller sent as given (Undefined when omitted).
WithDefault(given, d) == IF given = Undefined THEN d ELSE given[1]

\* The params argument of the handler for what the caller sent, after the input
\* schema set the defaults; given keeps what the caller sent for the three numbers.
ImageParamsOf(templateId, templateVersion, slots, given) ==
    [templateId |-> templateId, templateVersion |-> templateVersion, slots |-> slots,
     given |-> given,
     width |-> WithDefault(given.width, DefaultWidth),
     height |-> WithDefault(given.height, DefaultHeight),
     samplingSteps |-> WithDefault(given.samplingSteps, DefaultSamplingSteps)]

\* params.subject is truthy.
SubjectGiven(p) == "subject" \in DOMAIN p.slots /\ Truthy(p.slots["subject"])

\* template.parameters.subject is truthy.
TemplateHasSubject(tpl) ==
    "subject" \in DOMAIN tpl.parameters /\ Truthy(tpl.parameters["subject"])

\* params.templateId is truthy.
TemplateIdGiven(p) == p.templateId # Undefined /\ p.templateId[1] # ""

\* The catch clause around the template lookup: a TEMPLATE_NOT_FOUND TemplateError
\* becomes INVALID_TEMPLATE, anything else thrown in the try block becomes
\* INTERNAL_ERROR carrying it.
CatchLoadTemplate(error) ==
    IF error.name = "TemplateError" /\ error.type = "TEMPLATE_NOT_FOUND"
    THEN ImageGenerationError("INVALID_TEMPLATE", error.message, Undefined)
    ELSE ImageGenerationError("INTERNAL_ERROR", "failed to load template parameters", <<error>>)

\* Mutant of LoadTemplate: a request without template id is not asked for a subject.
LoadTemplate_NoSubjectCheck(p, store) ==
    IF TemplateIdGiven(p)
    THEN LET found == getTemplateById(store, p.templateId[1], p.templateVersion)
         IN  IF found.kind = "throw" THEN Throw(CatchLoadTemplate(found.error))
             ELSE IF ~SubjectGiven(p) /\ ~TemplateHasSubject(found.value)
             THEN Throw(CatchLoadTemplate(
                     ImageGenerationError("INVALID_PARAMETERS",
                                          "subject must be provided", Undefined)))
             ELSE Return(found.value)
    ELSE Return(NoTemplate)

\* Step 1 of the handler: the template (or NoTemplate), or the error thrown.
LoadTemplate(p, store) ==
    IF TemplateIdGiven(p)
    THEN LET found == getTemplateById(store, p.templateId[1], p.templateVersion)
         IN  IF found.kind = "throw" THEN Throw(CatchLoadTemplate(found.error))
             ELSE IF ~SubjectGiven(p) /\ ~TemplateHasSubject(found.value)
             THEN Throw(CatchLoadTemplate(
                     ImageGenerationError("INVALID_PARAMETERS",
                                          "subject must be provided", Undefined)))
             ELSE Return(found.value)
    ELSE IF ~SubjectGiven(p)
    THEN Throw(ImageGenerationError("INVALID_PARAMETERS",
                                    "subject or a valid template id must be provided",
                                    Undefined))
    ELSE Return(NoTemplate)

\* finalParams as handed to generatePrompt: params, with the template's subject when
\* params has none.
FinalParams(p, tpl) ==
    IF ~SubjectGiven(p) /\ tpl # NoTemplate /\ TemplateHasSubject(tpl)
    THEN Spread(p.slots, [k \in {"subject"} |-> tpl.parameters["subject"]])
    ELSE p.slots

\* The outer catch of the handler: an ImageGenerationError is rethrown, anything
\* else becomes INTERNAL_ERROR with the message only.
CatchAll(error) ==
    IF error.name = "ImageGenerationError" THEN error
    ELSE ImageGenerationError("INTERNAL_ERROR", "image generation failed: " \o error.message,
                              Undefined)

\* Mutant of UsedTemplate: the provenance always names version 1.
UsedTemplate_FirstVersion(tpl) ==
    IF tpl # NoTemplate
    THEN <<[id |-> tpl.id, name |-> tpl.name, version |-> 1]>>
    ELSE Undefined

\* usedTemplate of a response.
UsedTemplate(tpl) ==
    IF tpl # NoTemplate
    THEN <<[id |-> tpl.id, name |-> tpl.name, version |-> tpl.version]>>
    ELSE Undefined

\* promptResult.negativePrompt, Undefined when the field is absent.
NegativePromptOf(result) ==
    IF "negativePrompt" \in DOMAIN result THEN <<result.negativePrompt>> ELSE Undefined

\* parameters of a response.
ParametersOf(p) == [width |-> p.width, height |-> p.height, samplingSteps |-> p.samplingSteps]

\* Mutant of SamplingRequestOf: width and height change places in the metadata.
SamplingRequestOf_Transposed(p, result) ==
    [messages |-> <<[role |-> "user", content |-> [type |-> "text", text |-> result.prompt]]>>,
     metadata |-> [negativePrompt |-> NegativePromptOf(result),
                   width |-> p.height, height |-> p.width,
                   samplingSteps |-> p.samplingSteps]]

\* The request built for handleSamplingRequest.
SamplingRequestOf(p, result) ==
    [messages |-> <<[role |-> "user", content |-> [type |-> "text", text |-> result.prompt]]>>,
     metadata |-> [negativePrompt |-> NegativePromptOf(result),
                   width |-> p.width, height |-> p.height,
                   samplingSteps |-> p.samplingSteps]]

\* The text-only response of a client without sampling support.
TextResponse(p, tpl, result) ==
    [content |-> <<[type |-> "text",
                    text |-> "prompt generated (the client cannot generate images): Prompt: "
                             \o result.prompt
                             \o (IF "negativePrompt" \in DOMAIN result
                                    /\ result.negativePrompt # ""
                                 THEN " Negative prompt: " \o result.negativePrompt
                                 ELSE "")
                             \o " parameters: width " \o ToString(p.width)
                             \o ", height " \o ToString(p.height)
                             \o ", samplingSteps " \o ToString(p.samplingSteps)
                             \o ", usedTemplate "
                             \o (IF tpl # NoTemplate
                                 THEN tpl.name \o " (ID: " \o tpl.id \o ", version: "
                                      \o ToString(tpl.version) \o ")"
                                 ELSE "none")]>>,
     structuredContent |->
        [prompt |-> result.prompt,
         negativePrompt |-> NegativePromptOf(result),
         parameters |-> ParametersOf(p),
         supportsSampling |-> FALSE,
         usedTemplate |-> UsedTemplate(tpl)]]

\* The response carrying the generated image.
ImageResponse(p, tpl, result, content) ==
    [content |-> <<[type |-> "image", data |-> content.data[1],
                    mimeType |-> IF content.mimeType # Undefined /\ content.mimeType[1] # ""
                                 THEN content.mimeType[1] ELSE "image/png"],
                   [type |-> "text", text |-> "image generated"]>>,
     structuredContent |->
        [imageUrl |-> content.data[1],
         prompt |-> result.prompt,
         negativePrompt |-> NegativePromptOf(result),
         parameters |-> ParametersOf(p),
         usedTemplate |-> UsedTemplate(tpl)]]

\* The completion response is null (or undefined).
ResponseNull == [shape |-> "null"]

\* A completion response object; each field is Undefined or <<value>>.
Response(model, role, content) ==
    [shape |-> "object", model |-> model, stopReason |-> <<"complete">>,
     role |-> role, content |-> content]

\* A content item of a completion response.
Content(type, data, mimeType, text) ==
    [type |-> type, data |-> data, mimeType |-> mimeType, text |-> text]

\* handleSamplingRequest after createMessage resolved with response: a falsy response
\* throws inside the try block, and the catch wraps the Error.
HandleResolved(response) ==
    IF response.shape = "null"
    THEN Throw(ErrorOf("Error", "Sampling request failed: no valid Sampling response"))
    ELSE Return(response)

\* handleSamplingRequest after createMessage rejected with reason: an Error is
\* wrapped into a new Error, anything else is rethrown as it is.
HandleRejected(reason) ==
    IF reason.name \in {"Error", "TypeError"}
    THEN Throw(ErrorOf("Error", "Sampling request failed: " \o reason.message))
    ELSE Throw(reason)

\* The catch clause around the sampling call.
CatchSampling(error) == ImageGenerationError("SAMPLING_FAILED", "image generation failed", <<error>>)

\* Mutant of AfterSampling: a failed sampling call falls back to the text response.
AfterSampling_FallbackToText(p, tpl, result, outcome) ==
    IF outcome.kind = "throw" THEN Return(TextResponse(p, tpl, result))
    ELSE IF outcome.value.content = Undefined
    THEN Throw(CatchSampling(ErrorOf("TypeError", "cannot read properties of undefined")))
    ELSE LET content == outcome.value.content[1]
         IN  IF content.type # "image" \/ content.data = Undefined \/ content.data[1] = ""
             THEN Throw(CatchSampling(ErrorOf("Error", "the server returned a non-image response")))
             ELSE Return(ImageResponse(p, tpl, result, content))

\* The handler after handleSamplingRequest settled with outcome.
AfterSampling(p, tpl, result, outcome) ==
    IF outcome.kind = "throw" THEN Throw(CatchSampling(outcome.error))
    ELSE IF outcome.value.content = Undefined
    THEN Throw(CatchSampling(ErrorOf("TypeError", "cannot read properties of undefined")))
    ELSE LET content == outcome.value.content[1]
         IN  IF content.type # "image" \/ content.data = Undefined \/ content.data[1] = ""
             THEN Throw(CatchSampling(ErrorOf("Error", "the server returned a non-image response")))
             ELSE Return(ImageResponse(p, tpl, result, content))

(***************************************************************************)
(* Spec: generateImage requests against a template store                   *)
(***************************************************************************)

\* The templates loaded at start-up.
StoredTemplates ==
    <<TemplateWith("t1", "T1",
                   [subject |-> Str("cat"), style |-> Str("oil"), negativePrompt |-> Str("blurry")],
                   1),
      TemplateWith("t2", "T2", [subject |-> Str(""), mood |-> Str("calm")], 2)>>

\* The slot values a generateImage request may carry (the input schema admits strings).
ImageSlotObjects ==
    UNION {[D -> {Str(""), Str("dog")}] : D \in SUBSET {"subject", "style", "negativePrompt"}}

\* The sampling declarations of the generateImage requests.
ImageExtras ==
    {ExtraNull, ExtraNoMeta, ExtraNoCapabilities,
     ExtraWith(SamplingMissing), ExtraWith(SamplingPlainObject)}
    \cup {ExtraWith(SamplingArray(names)) : names \in SUBSET {"createMessage", "image"}}
    \cup {ExtraWith(SamplingProbe(names, Undefined, Undefined)) :
            names \in SUBSET {"createMessage", "image"}}

\* The width, height and samplingSteps a caller may send: none, all three, or the
\* width alone; each is Undefined or <<number>> within the schema's range.
ImageDimensions ==
    {[width |-> Undefined, height |-> Undefined, samplingSteps |-> Undefined],
     [width |-> <<1024>>, height |-> <<768>>, samplingSteps |-> <<30>>],
     [width |-> <<64>>, height |-> Undefined, samplingSteps |-> Undefined]}

\* The params of the generateImage requests.
ImageRequests ==
    {ImageParamsOf(id, version, slots, dims) :
        id \in {Undefined, <<"">>, <<"t1">>, <<"t2">>, <<"t9">>},
        version \in {Undefined, <<1>>, <<2>>},
        slots \in ImageSlotObjects,
        dims \in ImageDimensions}

\* The image contents a completion response may carry.
ResponseContents ==
    {Undefined}
    \cup {<<Content("image", data, mimeType, Undefined)>> :
            data \in {Undefined, <<"">>, <<"base64-data">>},
            mimeType \in {Undefined, <<"image/jpeg">>}}
    \cup {<<Content("text", Undefined, Undefined, text)>> : text \in {Undefined, <<"hello">>}}

\* What createMessage may resolve with.
Responses ==
    {ResponseNull}
    \cup {Response(<<"test-model">>, <<"assistant">>, content) : content \in ResponseContents}
    \cup {Response(Undefined, <<"assistant">>,
                   <<Content("image", <<"base64-data">>, <<"image/jpeg">>, Undefined)>>),
          Response(<<"test-model">>, Undefined,
                   <<Content("image", <<"base64-data">>, <<"image/jpeg">>, Undefined)>>)}

\* What createMessage may reject with: an Error or a value that is no Error.
Rejections ==
    {ErrorOf("Error", "sampling failed"), ErrorOf("Error", "no valid Sampling response"),
     ErrorOf("NotAnError", "timeout")}

Init ==
    /\ templates = StoredTemplates
    /\ server \in {[sampling |-> "undefined"], [sampling |-> "createMessage"]}
    /\ imageParams = NotComputed
    /\ samplingRequest = Undefined
    /\ createMessageCalls = 0
    /\ samplingOutcome = NotComputed
    /\ cancelled = FALSE
    /\ lookedUp = NoTemplate
    /\ toolResult = NotComputed
    /\ pc = "idle"
    /\ extra = ExtraNull
    /\ supportsSampling = NotComputed
    /\ samplingCapabilities = NotComputed
    /\ PromptIdle
    /\ StoreIdle

\* The generateImage handler from its entry to its first suspension on the outbound
\* call, or to its end when it settles without one.
GenerateImageWith(p, ex) ==
    /\ imageParams' = p
    /\ extra' = ex
    /\ LET loaded == LoadTemplate(p, templates)
           tpl == loaded.value
           final == FinalParams(p, tpl)
           prompted == generatePrompt(final, tpl)
           checked == checkSamplingSupport(ex)
       IN  IF loaded.kind = "throw"
           THEN /\ toolResult' = Throw(CatchAll(loaded.error))
                /\ pc' = "done"
                /\ UNCHANGED <<template, params, mergedParams, promptResult,
                               supportsSampling, samplingRequest, createMessageCalls>>
           ELSE /\ template' = tpl
                /\ params' = final
                /\ mergedParams' = MergeParams(final, tpl)
                /\ promptResult' = prompted
                /\ IF prompted.kind = "throw"
                   THEN /\ toolResult' = Throw(CatchAll(ErrorOf("Error", prompted.error)))
                        /\ pc' = "done"
                        /\ UNCHANGED <<supportsSampling, samplingRequest, createMessageCalls>>
                   ELSE /\ supportsSampling' = checked
                        /\ IF checked.kind = "throw"
                           THEN /\ toolResult' = Throw(CatchAll(ErrorOf("TypeError", checked.error)))
                                /\ pc' = "done"
                                /\ UNCHANGED <<samplingRequest, createMessageCalls>>
                           ELSE IF ~checked.value
                           THEN /\ toolResult' = Return(TextResponse(p, tpl, prompted.value))
                                /\ pc' = "done"
                                /\ UNCHANGED <<samplingRequest, createMessageCalls>>
                           ELSE IF server.sampling = "undefined"
                           THEN /\ toolResult' =
                                      Throw(CatchAll(CatchSampling(
                                          ErrorOf("Error", "the server does not support sampling"))))
                                /\ pc' = "done"
                                /\ UNCHANGED <<samplingRequest, createMessageCalls>>
                           ELSE /\ samplingRequest' = <<SamplingRequestOf(p, prompted.value)>>
                                /\ createMessageCalls' = createMessageCalls + 1
                                /\ pc' = "awaiting"
                                /\ UNCHANGED toolResult
    /\ lookedUp' = (IF LoadTemplate(p, templates).kind = "throw" THEN lookedUp
                    ELSE LoadTemplate(p, templates).value)
    /\ UNCHANGED <<templates, server, samplingOutcome, cancelled, samplingCapabilities,
                   promptPc>>

\* A client calls the generateImage tool.
GenerateImage ==
    /\ pc = "idle"
    /\ \E p \in ImageRequests, ex \in ImageExtras : GenerateImageWith(p, ex)
    /\ UNCHANGED storeVars

\* Mutant of SettleSampling: the handler counts the use of a template as a new
\* version of it in the store.
SettleSampling_BumpsVersion(settlement, outcome) ==
    /\ samplingOutcome' = settlement
    /\ toolResult' =
          LET settled == AfterSampling(imageParams, template, promptResult.value, outcome)
          IN  IF settled.kind = "throw" THEN Throw(CatchAll(settled.error)) ELSE settled
    /\ pc' = "done"
    /\ templates' = [i \in DOMAIN templates |->
                        IF template # NoTemplate /\ templates[i].id = template.id
                        THEN [templates[i] EXCEPT !.version = @ + 1]
                        ELSE templates[i]]
    /\ UNCHANGED <<server, imageParams, samplingRequest, createMessageCalls,
                   cancelled, lookedUp, promptVars, checkerVars, storeVars>>

\* The handler from the settled outbound call to its end; settled records how the
\* createMessage promise settled and outcome is what handleSamplingRequest makes of it.
SettleSampling(settlement, outcome) ==
    /\ samplingOutcome' = settlement
    /\ toolResult' =
          LET settled == AfterSampling(imageParams, template, promptResult.value, outcome)
          IN  IF settled.kind = "throw" THEN Throw(CatchAll(settled.error)) ELSE settled
    /\ pc' = "done"
    /\ UNCHANGED <<templates, server, imageParams, samplingRequest, createMessageCalls,
                   cancelled, lookedUp, promptVars, checkerVars, storeVars>>

\* createMessage resolves with a response and the handler runs to its end.
CreateMessageResolves ==
    /\ pc = "awaiting"
    /\ \E response \in Responses :
         SettleSampling([kind |-> "resolved", value |-> response], HandleResolved(response))

\* createMessage rejects with a reason and the handler runs to its end.
CreateMessageRejects ==
    /\ pc = "awaiting"
    /\ \E reason \in Rejections :
         SettleSampling([kind |-> "rejected", reason |-> reason], HandleRejected(reason))

\* The transport cancels the request while its createMessage call is pending: the
\* abort signal of extra fires. The handler reads no signal and handleSamplingRequest
\* hands none to createMessage, so the call stays pending and nothing else changes.
Cancel ==
    /\ pc = "awaiting"
    /\ ~cancelled
    /\ cancelled' = TRUE
    /\ UNCHANGED <<templates, server, imageParams, samplingRequest, createMessageCalls,
                   samplingOutcome, lookedUp, toolResult, pc, promptVars, checkerVars,
                   storeVars>>

\* The settled result is delivered; the next request starts with fresh locals.
Respond ==
    /\ pc = "done"
    /\ pc' = "idle"
    /\ imageParams' = NotComputed
    /\ samplingRequest' = Undefined
    /\ createMessageCalls' = 0
    /\ samplingOutcome' = NotComputed
    /\ cancelled' = FALSE
    /\ lookedUp' = NoTemplate
    /\ toolResult' = NotComputed
    /\ extra' = ExtraNull
    /\ supportsSampling' = NotComputed
    /\ params' = EmptyObject
    /\ template' = NoTemplate
    /\ mergedParams' = NotComputed
    /\ promptResult' = NotComputed
    /\ UNCHANGED <<templates, server, samplingCapabilities, promptPc, storeVars>>

Next ==
    \/ GenerateImage
    \/ CreateMessageResolves
    \/ CreateMessageRejects
    \/ Cancel
    \/ Respond

Spec == Init /\ [][Next]_vars

(***************************************************************************)
(* Properties of generatePrompt (checked under SpecPrompt)                 *)
(***************************************************************************)

StartsWith(s, prefix) ==
    Len(prefix) <= Len(s) /\ SubSeq(s, 1, Len(prefix)) = prefix

Contains(s, sub) ==
    \E i \in 1..(Len(s) - Len(sub) + 1) : SubSeq(s, i, i + Len(sub) - 1) = sub

PromptCalled == promptPc = "called"

PromptOk == PromptCalled /\ promptResult.kind = "return"

HasTemplate == template # NoTemplate

\* The value obj holds for slot s is present and not the empty string.
PresentNonEmpty(obj, s) == s \in DOMAIN obj /\ obj[s] # Str("")

\* The value obj holds for slot s is a non-empty string.
NonEmptyString(obj, s) == s \in DOMAIN obj /\ IsString(obj[s]) /\ obj[s].v # ""

\* The label the prompt uses for a slot.
Label(s) == IF s = "cameraAngle" THEN "camera" ELSE s

\* The nine labelled slots in the order the prompt lists them.
FragmentSlots == <<"action", "environment", "cameraAngle", "style", "details",
                   "lighting", "mood", "technical", "quality">>

\* The string value v of slot s shows in a successful result: first in the prompt for
\* subject, as the negativePrompt field, or as the fragment "<label>: v".
RenderedAs(s, v) ==
    IF s = "subject" THEN StartsWith(promptResult.value.prompt, v)
    ELSE IF s = "negativePrompt"
    THEN "negativePrompt" \in DOMAIN promptResult.value
         /\ promptResult.value.negativePrompt = v
    ELSE Contains(promptResult.value.prompt, ", " \o Label(s) \o ": " \o v)

\* C1: every slot for which params holds a present, non-empty value resolves to that
\* value whatever the template holds, and a successful call renders that value.
C1_OverridePrecedence ==
    PromptCalled =>
        \A s \in Slots :
            PresentNonEmpty(params, s) =>
                /\ s \in DOMAIN mergedParams
                /\ mergedParams[s] = params[s]
                /\ (PromptOk /\ IsString(params[s])) => RenderedAs(s, params[s].v)

\* C1 witness: a successful call where params and the template hold different
\* non-empty values for the same slot.
C1_Witness ==
    /\ PromptOk
    /\ HasTemplate
    /\ \E s \in Slots \ {"subject"} :
         /\ NonEmptyString(params, s)
         /\ NonEmptyString(template.parameters, s)
         /\ params[s] # template.parameters[s]

\* C2 (as claimed): with a template, a slot whose override is absent or the empty
\* string resolves to the template's default, and is absent (or empty) only if the
\* template has no default for it; a successful call renders the template's default.
C2_MergeFallback ==
    (PromptOk /\ HasTemplate) =>
        \A s \in Slots :
            (s \notin DOMAIN params \/ params[s] = Str("")) =>
                IF s \in DOMAIN template.parameters
                THEN /\ s \in DOMAIN mergedParams
                     /\ mergedParams[s] = template.parameters[s]
                     /\ NonEmptyString(template.parameters, s)
                            => RenderedAs(s, template.parameters[s].v)
                ELSE ~PresentNonEmpty(mergedParams, s)

\* The value the claims call resolved: the override when present and non-empty,
\* otherwise the template's default, otherwise none (the empty sequence).
Resolved(s) ==
    IF PresentNonEmpty(params, s) THEN <<params[s]>>
    ELSE IF HasTemplate /\ s \in DOMAIN template.parameters THEN <<template.parameters[s]>>
    ELSE <<>>

\* No usable subject in obj: the key is missing or holds the empty string.
SubjectMissing(obj) == "subject" \notin DOMAIN obj \/ obj["subject"] = Str("")

\* Every slot but subject that params or the template sets holds a string.
OtherSlotsAreStrings ==
    /\ \A s \in (DOMAIN params) \ {"subject"} : IsString(params[s])
    /\ HasTemplate =>
         \A s \in (DOMAIN template.parameters) \ {"subject"} :
            IsString(template.parameters[s])

\* C3: generatePrompt succeeds only if subject resolves to a non-empty string; it
\* fails with no template and no usable override subject, and with a template
\* without subject and no override subject; with no override subject and a template
\* subject it succeeds and the prompt starts with the template's subject; a failed
\* call returns no prompt.
C3_SubjectMandatory ==
    PromptCalled =>
        /\ PromptOk =>
              /\ Resolved("subject") # <<>>
              /\ IsString(Resolved("subject")[1])
              /\ Resolved("subject")[1].v # ""
        /\ (~HasTemplate /\ SubjectMissing(params)) => ~PromptOk
        /\ (HasTemplate /\ SubjectMissing(template.parameters) /\ SubjectMissing(params))
              => ~PromptOk
        /\ (HasTemplate /\ "subject" \notin DOMAIN params
                /\ NonEmptyString(template.parameters, "subject") /\ OtherSlotsAreStrings)
              => /\ PromptOk
                 /\ StartsWith(promptResult.value.prompt, template.parameters["subject"].v)
        /\ ~PromptOk => (promptResult.kind = "throw" /\ "value" \notin DOMAIN promptResult)

\* C3 witness: a call without override subject that succeeds on the template's subject.
C3_Witness ==
    /\ PromptOk
    /\ HasTemplate
    /\ "subject" \notin DOMAIN params
    /\ params # EmptyObject
    /\ StartsWith(promptResult.value.prompt, "cat")

RECURSIVE ExpectedFragments(_, _)
\* ", <label>: <value>" for each slot of FragmentSlots from position i on that obj
\* holds with a non-empty value, concatenated in that order.
ExpectedFragments(obj, i) ==
    IF i > Len(FragmentSlots) THEN ""
    ELSE (IF NonEmptyString(obj, FragmentSlots[i])
          THEN ", " \o Label(FragmentSlots[i]) \o ": " \o obj[FragmentSlots[i]].v
          ELSE "")
         \o ExpectedFragments(obj, i + 1)

\* C4: the prompt is the subject's raw value followed by one fragment
\* "<label>: <value>" for exactly each present non-empty slot among action,
\* environment, cameraAngle (label camera), style, details, lighting, mood,
\* technical, quality, in that order, joined by ", ".
C4_AssemblyOrder ==
    PromptOk =>
        promptResult.value.prompt =
            mergedParams["subject"].v \o ExpectedFragments(mergedParams, 1)

\* C4 witness: a prompt with a camera fragment and a later fragment.
C4_Witness ==
    /\ PromptOk
    /\ NonEmptyString(mergedParams, "cameraAngle")
    /\ \E s \in {"style", "details", "quality"} : NonEmptyString(mergedParams, s)

\* obj without the key negativePrompt.
WithoutNegative(obj) == [k \in (DOMAIN obj) \ {"negativePrompt"} |-> obj[k]]

\* C5: negativePrompt contributes nothing to the main prompt (the prompt is the one
\* the same call yields with negativePrompt removed from params and template, and
\* holds no fragment beyond those of the ten other slots); the negativePrompt field
\* is the resolved negativePrompt (params' if given, else the template's) and is
\* absent when none resolves.
C5_NegativeSeparate ==
    PromptOk =>
        LET stripped ==
                generatePrompt(WithoutNegative(params),
                    IF HasTemplate
                    THEN [template EXCEPT !.parameters = WithoutNegative(@)]
                    ELSE NoTemplate)
            given == IF "negativePrompt" \in DOMAIN params THEN <<params["negativePrompt"]>>
                     ELSE IF HasTemplate /\ "negativePrompt" \in DOMAIN template.parameters
                     THEN <<template.parameters["negativePrompt"]>>
                     ELSE <<>>
        IN  /\ stripped.kind = "return"
            /\ promptResult.value.prompt = stripped.value.prompt
            /\ promptResult.value.prompt =
                  mergedParams["subject"].v \o ExpectedFragments(WithoutNegative(mergedParams), 1)
            /\ IF given # <<>> /\ given[1].v # ""
               THEN /\ "negativePrompt" \in DOMAIN promptResult.value
                    /\ promptResult.value.negativePrompt = given[1].v
               ELSE "negativePrompt" \notin DOMAIN promptResult.value

\* C5 witness: a successful call that returns a negativePrompt field.
C5_Witness ==
    /\ PromptOk
    /\ "negativePrompt" \in DOMAIN promptResult.value
    /\ promptResult.value.negativePrompt \in {"cat", "dog"}

\* Some slot of the resolved parameter set holds a non-string or an empty string.
SomeSlotInvalid ==
    \E s \in DOMAIN mergedParams : ~IsString(mergedParams[s]) \/ mergedParams[s] = Str("")

\* C6 (as claimed): generatePrompt fails whenever any slot of the resolved parameter
\* set is present with a non-string or an empty-string value.
C6_FailFastAllSlots ==
    (PromptCalled /\ SomeSlotInvalid) => ~PromptOk

\* C6 (amended): generatePrompt fails, returning no prompt, exactly when some slot
\* of the resolved set holds a non-string value or subject is missing or empty; an
\* empty string in one of the ten other slots is accepted and treated as absent: it
\* yields no fragment and no negativePrompt field.
C6_FailFastAmended ==
    PromptCalled =>
        /\ ~PromptOk <=>
              \/ \E s \in DOMAIN mergedParams : ~IsString(mergedParams[s])
              \/ SubjectMissing(mergedParams)
        /\ ~PromptOk => "value" \notin DOMAIN promptResult
        /\ PromptOk =>
              \A s \in (DOMAIN mergedParams) \ {"subject"} :
                 mergedParams[s] = Str("") =>
                    IF s = "negativePrompt"
                    THEN "negativePrompt" \notin DOMAIN promptResult.value
                    ELSE ~Contains(promptResult.value.prompt, Label(s) \o ": ")

\* C6 witnesses: a call rejected for a non-string optional slot although its subject
\* is valid; a call that succeeds with an empty optional slot is C6_FailFastAllSlots'
\* violation.
C6_Witness ==
    /\ PromptCalled
    /\ ~PromptOk
    /\ NonEmptyString(mergedParams, "subject")
    /\ \E s \in (DOMAIN mergedParams) \ {"subject"} : ~IsString(mergedParams[s])

(***************************************************************************)
(* Properties of the capability checks (checked under SpecChecker)         *)
(***************************************************************************)

\* extra declares no sampling support in a well-formed way, or is malformed: it is
\* null, lacks _meta or capabilities, has no sampling entry, or has a sampling entry
\* that is neither a list nor an object with an includes probe.
AbsentOrMalformed ==
    \/ NoCapabilities(extra)
    \/ extra.sampling.shape \in {"undefined", "plainObject"}

\* C7 (as claimed): both checks return for every input and never throw, and report
\* no support for an absent or malformed declaration.
C7_NegotiationTotal ==
    /\ supportsSampling # NotComputed =>
          /\ supportsSampling.kind = "return"
          /\ AbsentOrMalformed => supportsSampling.value = FALSE
    /\ samplingCapabilities # NotComputed =>
          /\ samplingCapabilities.kind = "return"
          /\ AbsentOrMalformed =>
                /\ samplingCapabilities.value.supportsCreateMessage = FALSE
                /\ samplingCapabilities.value.supportsImages = FALSE

\* C17: for every set of declared names the two checks give the same flags for the
\* array and for the includes-probe declaration: supportsCreateMessage is true iff
\* createMessage is declared and supportsImages is true iff image is declared.
C17_ShapeIndependent ==
    /\ (~NoCapabilities(extra) /\ extra.sampling.shape \in {"array", "probe"}) =>
          /\ supportsSampling # NotComputed =>
                supportsSampling = Return("createMessage" \in extra.sampling.names)
          /\ samplingCapabilities # NotComputed =>
                /\ samplingCapabilities.kind = "return"
                /\ samplingCapabilities.value.supportsCreateMessage
                      = ("createMessage" \in extra.sampling.names)
                /\ samplingCapabilities.value.supportsImages
                      = ("image" \in extra.sampling.names)
    /\ \A names \in SUBSET FeatureNames :
          LET array == ExtraWith(SamplingArray(names))
              probe == ExtraWith(SamplingProbe(names, Undefined, Undefined))
          IN  /\ checkSamplingSupport(array) = checkSamplingSupport(probe)
              /\ checkDetailedSamplingCapabilities(array).value.supportsCreateMessage
                    = checkDetailedSamplingCapabilities(probe).value.supportsCreateMessage
              /\ checkDetailedSamplingCapabilities(array).value.supportsImages
                    = checkDetailedSamplingCapabilities(probe).value.supportsImages

\* C17 witness: both checks have answered for a probe that declares image only.
C17_Witness ==
    /\ extra = ExtraWith(SamplingProbe({"image"}, Undefined, Undefined))
    /\ supportsSampling = Return(FALSE)
    /\ samplingCapabilities # NotComputed
    /\ samplingCapabilities.value.supportsImages
    /\ ~samplingCapabilities.value.supportsCreateMessage

(***************************************************************************)
(* Properties of the generateImage handler (checked under Spec)            *)
(***************************************************************************)

\* The declaration in extra names the feature, as a list element or by its probe.
Declares(ex, feature) ==
    /\ ~NoCapabilities(ex)
    /\ ex.sampling.shape \in {"array", "probe"}
    /\ feature \in ex.sampling.names

\* Negotiation finds no completion support: no declaration, or a well-formed one
\* that does not include createMessage.
NoSupportDeclared(ex) ==
    \/ NoCapabilities(ex)
    \/ ex.sampling.shape = "undefined"
    \/ ex.sampling.shape \in {"array", "probe"} /\ "createMessage" \notin ex.sampling.names

\* The stored templates a request's templateId and templateVersion resolve to.
ResolvingTemplates(p) ==
    {i \in 1..Len(templates) :
        /\ templates[i].id = p.templateId[1]
        /\ p.templateVersion # Undefined => templates[i].version = p.templateVersion[1]}

\* The request has a resolvable non-empty subject: its own, or that of the template
\* its templateId resolves to; a templateId that is given resolves.
SubjectResolvable(p) ==
    IF TemplateIdGiven(p)
    THEN \E i \in ResolvingTemplates(p) :
            NonEmptyString(p.slots, "subject")
            \/ NonEmptyString(templates[i].parameters, "subject")
    ELSE NonEmptyString(p.slots, "subject")

\* The handler has settled with a request in hand.
Settled == pc = "done"

\* The settled result is the text-only response.
TextOnly ==
    /\ toolResult.kind = "return"
    /\ Len(toolResult.value.content) = 1
    /\ toolResult.value.content[1].type = "text"
    /\ "supportsSampling" \in DOMAIN toolResult.value.structuredContent
    /\ toolResult.value.structuredContent.supportsSampling = FALSE

\* C8: with no completion support negotiated, a request whose subject resolves makes
\* no outbound call and returns a success of one text item with
\* structuredContent.supportsSampling = false and the assembled prompt.
C8_NoSupportBranch ==
    (pc \in {"awaiting", "done"} /\ NoSupportDeclared(extra) /\ SubjectResolvable(imageParams)) =>
        /\ Settled
        /\ createMessageCalls = 0
        /\ samplingRequest = Undefined
        /\ TextOnly
        /\ promptResult.kind = "return"
        /\ toolResult.value.structuredContent.prompt = promptResult.value.prompt
        /\ toolResult.value.structuredContent.prompt =
              mergedParams["subject"].v \o ExpectedFragments(mergedParams, 1)
        /\ (~TemplateIdGiven(imageParams) /\ DOMAIN imageParams.slots = {"subject"})
              => toolResult.value.structuredContent.prompt = imageParams.slots["subject"].v

\* C8 witness: the text-only response to { subject: "dog" } from a client that
\* declares sampling without createMessage.
C8_Witness ==
    /\ Settled
    /\ Declares(extra, "image")
    /\ ~Declares(extra, "createMessage")
    /\ server.sampling = "createMessage"
    /\ TextOnly
    /\ toolResult.value.structuredContent.prompt = "dog"

\* C9 (as claimed): a request that passes validation and prompt assembly and whose
\* client declares completion support makes exactly one createMessage call.
C9_ExactlyOneCall ==
    (Settled /\ promptResult # NotComputed /\ promptResult.kind = "return"
        /\ Declares(extra, "createMessage"))
      => createMessageCalls = 1

\* C9, the part the code keeps: no request makes more than one createMessage call,
\* and on a server that has a sampling property the supported request makes one.
C9_AtMostOneCall ==
    /\ createMessageCalls <= 1
    /\ (Settled /\ promptResult # NotComputed /\ promptResult.kind = "return"
           /\ Declares(extra, "createMessage") /\ server.sampling = "createMessage")
         => createMessageCalls = 1

\* The createMessage promise resolved with a usable image.
UsableImage ==
    /\ samplingOutcome.kind = "resolved"
    /\ samplingOutcome.value.shape = "object"
    /\ samplingOutcome.value.content # Undefined
    /\ samplingOutcome.value.content[1].type = "image"
    /\ samplingOutcome.value.content[1].data \notin {Undefined, <<"">>}

\* The settled result is the failure SAMPLING_FAILED carrying a cause.
SamplingFailed ==
    /\ toolResult.kind = "throw"
    /\ toolResult.error.name = "ImageGenerationError"
    /\ toolResult.error.type = "SAMPLING_FAILED"
    /\ toolResult.error.details # Undefined

\* C10: with completion support negotiated, an outbound call that rejects, returns
\* null or returns no usable image fails the request with SAMPLING_FAILED carrying
\* the cause (a rejection's message or value is kept in it), never with the text-only
\* response; the text-only response is returned only when no support was negotiated.
C10_GatewayFailureIsHard ==
    Settled =>
        /\ (samplingOutcome # NotComputed /\ ~UsableImage) =>
              /\ SamplingFailed
              /\ samplingOutcome.kind = "rejected" =>
                    Contains(toolResult.error.details[1].message, samplingOutcome.reason.message)
        /\ (Declares(extra, "createMessage") /\ promptResult # NotComputed
                /\ promptResult.kind = "return" /\ ~(samplingOutcome # NotComputed /\ UsableImage))
              => SamplingFailed
        /\ (toolResult.kind = "return" /\ TextOnly) => NoSupportDeclared(extra)
        /\ (samplingOutcome # NotComputed /\ UsableImage) =>
              /\ toolResult.kind = "return"
              /\ toolResult.value.content[1].type = "image"

\* C10 witness: a rejected outbound call ends in SAMPLING_FAILED.
C10_Witness ==
    /\ Settled
    /\ samplingOutcome # NotComputed
    /\ samplingOutcome.kind = "rejected"
    /\ SamplingFailed

\* The settled result is the failure of the given ImageGenerationError type.
FailedWith(type) ==
    /\ toolResult.kind = "throw"
    /\ toolResult.error.name = "ImageGenerationError"
    /\ toolResult.error.type = type

\* No outbound call was made for the request.
NoOutboundCall == createMessageCalls = 0 /\ samplingRequest = Undefined

\* The completion response lacks a required field: it is null, lacks model, role or
\* content, or is of image type without data or without a MIME type.
InvalidResponse(response) ==
    \/ response.shape = "null"
    \/ response.model = Undefined
    \/ response.role = Undefined
    \/ response.content = Undefined
    \/ /\ response.content[1].type = "image"
       /\ \/ response.content[1].data \in {Undefined, <<"">>}
          \/ response.content[1].mimeType \in {Undefined, <<"">>}

\* C11 (as claimed): a completion response that lacks a required field is never
\* turned into a success: the request it answers fails.
C11_InvalidResponseRejected ==
    (Settled /\ samplingOutcome # NotComputed /\ samplingOutcome.kind = "resolved"
        /\ InvalidResponse(samplingOutcome.value))
      => toolResult.kind = "throw"

C13_TemplateWithoutSubject ==
    (pc \in {"awaiting", "done"} /\ TemplateIdGiven(imageParams)
        /\ ResolvingTemplates(imageParams) # {} /\ ~SubjectResolvable(imageParams)) =>
          /\ Settled
          /\ FailedWith("INVALID_PARAMETERS")
          /\ NoOutboundCall

\* C14: a request without templateId and without a non-empty subject fails with
\* INVALID_PARAMETERS whatever the client declares, before negotiation and prompt
\* assembly and without an outbound call.
C14_NoSubjectNoTemplate ==
    (pc \in {"awaiting", "done"} /\ ~TemplateIdGiven(imageParams)
        /\ ~NonEmptyString(imageParams.slots, "subject")) =>
          /\ Settled
          /\ FailedWith("INVALID_PARAMETERS")
          /\ supportsSampling = NotComputed
          /\ promptResult = NotComputed
          /\ NoOutboundCall

\* C14 witness: the failure for a client that declares createMessage on a server that
\* could make the call.
C14_Witness ==
    /\ Settled
    /\ imageParams.templateId = Undefined
    /\ "subject" \notin DOMAIN imageParams.slots
    /\ Declares(extra, "createMessage")
    /\ server.sampling = "createMessage"
    /\ FailedWith("INVALID_PARAMETERS")

\* C15 (as claimed): the failure handleSamplingRequest reports for a null or
\* structurally invalid response differs from the failure it reports for every
\* rejection of the remote call, so the caller can tell the two apart.
C15_DistinctFailureKinds ==
    (Settled /\ samplingOutcome # NotComputed /\ samplingOutcome.kind = "resolved"
        /\ (samplingOutcome.value.shape = "null" \/ samplingOutcome.value.model = Undefined)) =>
          /\ FailedWith("SAMPLING_FAILED")
          /\ \A reason \in Rejections :
                HandleRejected(reason).error # toolResult.error.details[1]

\* C16 (as claimed): the outbound call is made only for a declaration with both
\* createMessage and image; with createMessage but not image no call is made.
C16_NeedsBothCapabilities ==
    (pc \in {"awaiting", "done"} /\ Declares(extra, "createMessage")
        /\ ~Declares(extra, "image")) => NoOutboundCall

(***************************************************************************)
(* The template tools: listTemplates, getTemplate, createTemplate,         *)
(* createTemplateFromImage, updateTemplate and deleteTemplate              *)
(***************************************************************************)

\* TemplateCategoryEnum
Categories == {"children-book", "tech-doc", "marketing"}

\* new TemplateError(type, message, details); details is Undefined or <<cause>>.
TemplateErrorWith(type, message, details) ==
    [name |-> "TemplateError", type |-> type, message |-> message, details |-> details]

\* A stored template: a template with its description and dates.
Stamp(tpl, description, createdAt, updatedAt) ==
    [id |-> tpl.id, name |-> tpl.name, description |-> description,
     category |-> tpl.category, parameters |-> tpl.parameters, version |-> tpl.version,
     createdAt |-> createdAt, updatedAt |-> updatedAt, isActive |-> tpl.isActive]

\* validateTemplate(template): TemplateSchema.parse accepts the object.
TemplateSchemaAccepts(tpl) ==
    /\ tpl.name # ""
    /\ tpl.category \in Categories
    /\ "subject" \in DOMAIN tpl.parameters
    /\ \A k \in DOMAIN tpl.parameters \cap Slots : IsString(tpl.parameters[k])
    /\ tpl.version >= 1

\* templates.findIndex(t => t.id === id): the index (from 1), or 0 for -1.
FindIndex(store, id) ==
    LET found == {i \in 1..Len(store) : store[i].id = id}
    IN  IF found = {} THEN 0 ELSE CHOOSE i \in found : \A j \in found : i <= j

\* templates.splice(index, 1) with index counted from 1; an index past the end
\* removes nothing.
Splice(store, index) ==
    IF index > Len(store) THEN store
    ELSE [i \in 1..(Len(store) - 1) |-> IF i < index THEN store[i] ELSE store[i + 1]]

\* The file saveTemplateToFS writes and deleteTemplateFromFS unlinks for a template.
FilePath(tpl) == [category |-> tpl.category, id |-> tpl.id]

\* fs.writeFile(filePath, JSON.stringify(template)): the file at the path holds the
\* content afterwards.
WriteFile(disk, path, content) ==
    {f \in disk : [category |-> f.category, id |-> f.id] # path}
    \cup {[category |-> path.category, id |-> path.id, content |-> content]}

\* The path names a file on the disk.
FileExists(disk, path) ==
    \E f \in disk : f.category = path.category /\ f.id = path.id

\* fs.unlink(filePath) of an existing file.
Unlink(disk, path) ==
    {f \in disk : [category |-> f.category, id |-> f.id] # path}

\* The result object of a template tool: isError, the text of its first content item
\* and structuredContent (Undefined or <<object>>).
ToolResult(isError, text, structuredContent) ==
    [isError |-> isError, text |-> text, structuredContent |-> structuredContent]

\* A tool call that has settled: what it was, what it settled to, the stored template
\* it addressed as that was when the call began (Undefined if none) and the number
\* of createMessage calls it made.
Settlement(op, args, entry, outbound, outcome) ==
    [op |-> op, args |-> args, entry |-> entry, outbound |-> outbound, outcome |-> outcome]

\* An in-place change of the template object with the id: every holder of a
\* reference to the object sees it, the store as well as the handlers suspended with
\* the object in a local variable.
MutateStore(store, id, changed) ==
    [i \in DOMAIN store |-> IF store[i].id = id THEN changed ELSE store[i]]

MutateTasks(suspended, id, changed) ==
    [i \in DOMAIN suspended |->
        IF suspended[i].tpl # NoTemplate /\ suspended[i].tpl.id = id
        THEN [suspended[i] EXCEPT !.tpl = changed]
        ELSE suspended[i]]

MutateLocal(local, id, changed) ==
    IF local # NoTemplate /\ local.id = id THEN changed ELSE local

\* The sequence without its element at index i.
Without(seq, i) == [j \in 1..(Len(seq) - 1) |-> IF j < i THEN seq[j] ELSE seq[j + 1]]

\* createTemplate: the newTemplate object built from args.
NewTemplate(id, args, now) ==
    [id |-> id, name |-> args.name, description |-> args.description,
     category |-> args.category, parameters |-> args.parameters, version |-> 1,
     createdAt |-> now, updatedAt |-> now, isActive |-> TRUE]

\* updateTemplate: args.parameters after the subject of the template was copied in.
UpdatedParameters(given, tpl) ==
    IF ~("subject" \in DOMAIN given /\ Truthy(given["subject"]))
       /\ "subject" \in DOMAIN tpl.parameters /\ Truthy(tpl.parameters["subject"])
    THEN Spread(given, [k \in {"subject"} |-> tpl.parameters["subject"]])
    ELSE given

\* updateTemplate: the template object after the field updates, the version
\* increment and the new updatedAt.
UpdatedTemplate(tpl, args, now) ==
    [id |-> tpl.id,
     name |-> IF args.name # Undefined THEN args.name[1] ELSE tpl.name,
     description |-> IF args.description # Undefined THEN args.description[1]
                     ELSE tpl.description,
     category |-> IF args.category # Undefined THEN args.category[1] ELSE tpl.category,
     parameters |-> IF args.parameters # Undefined
                    THEN UpdatedParameters(args.parameters[1], tpl)
                    ELSE tpl.parameters,
     version |-> tpl.version + 1,
     createdAt |-> tpl.createdAt,
     updatedAt |-> now,
     isActive |-> IF args.isActive # Undefined THEN args.isActive[1] ELSE tpl.isActive]

\* The template part of the structuredContent of createTemplate and updateTemplate.
TemplateSummary(tpl) ==
    [id |-> tpl.id, name |-> tpl.name, description |-> tpl.description,
     category |-> tpl.category, version |-> tpl.version, createdAt |-> tpl.createdAt,
     updatedAt |-> tpl.updatedAt, parameters |-> tpl.parameters,
     isActive |-> tpl.isActive]

\* parseAnalysisToTemplateParams: the analysis text is a sequence of lines, each a
\* label followed by a value; a line sets the slot of its label unless its value is
\* empty, "none" or "N/A", and a later line overwrites an earlier one.
RECURSIVE ParsedParams(_, _)
ParsedParams(lines, n) ==
    IF n = 0 THEN EmptyObject
    ELSE LET before == ParsedParams(lines, n - 1)
             line == lines[n]
         IN  IF line.slot \in Slots /\ line.value \notin {"", "none", "N/A"}
             THEN Spread(before, [k \in {line.slot} |-> Str(line.value)])
             ELSE before

parseAnalysisToTemplateParams(analysis) ==
    LET parsed == ParsedParams(analysis, Len(analysis))
    IN  IF "subject" \notin DOMAIN parsed
        THEN Throw(TemplateErrorWith("INVALID_PARAMETERS",
                                     "the analysis lacks a subject", Undefined))
        ELSE Return(parsed)

\* createTemplateFromImageWithSampling: the newTemplate object.
NewTemplateFromImage(id, args, parameters, now) ==
    [id |-> id,
     name |-> IF args.name # Undefined /\ args.name[1] # "" THEN args.name[1]
              ELSE "From image",
     description |-> "created from an image analysis",
     category |-> IF args.category # Undefined THEN args.category[1] ELSE "tech-doc",
     parameters |-> parameters, version |-> 1,
     createdAt |-> now, updatedAt |-> now, isActive |-> TRUE]

\* createTemplateFromImageWithoutSampling()
createTemplateFromImageWithoutSampling ==
    ToolResult(FALSE, "guide",
               <<[error |-> "SAMPLING_NOT_SUPPORTED",
                  message |-> "the client does not support image analysis"]>>)

\* String.prototype.toLowerCase on the names and descriptions of the model.
ToLowerCase(str) ==
    CASE str = "T1" -> "t1"
      [] str = "T2" -> "t2"
      [] str = "New" -> "new"
      [] str = "Renamed" -> "renamed"
      [] str = "From image" -> "from image"
      [] OTHER -> str

\* The position of a name in the order of String.prototype.localeCompare.
NameRank(name) ==
    CASE name = "" -> 0
      [] name = "From image" -> 1
      [] name = "New" -> 2
      [] name = "Renamed" -> 3
      [] name = "T1" -> 4
      [] name = "T2" -> 5
      [] OTHER -> 6

\* listTemplates: the filter callback.
ListFilter(tpl, args) ==
    IF args.isActive # Undefined /\ tpl.isActive # args.isActive[1] THEN FALSE
    ELSE IF args.category # Undefined /\ args.category[1] # ""
            /\ tpl.category # args.category[1] THEN FALSE
    ELSE IF args.search # Undefined /\ args.search[1] # ""
    THEN \/ Contains(ToLowerCase(tpl.name), ToLowerCase(args.search[1]))
         \/ Contains(ToLowerCase(tpl.description), ToLowerCase(args.search[1]))
    ELSE TRUE

\* Array.prototype.filter
RECURSIVE Filtered(_, _, _)
Filtered(store, args, n) ==
    IF n = 0 THEN <<>>
    ELSE IF ListFilter(store[n], args) THEN Append(Filtered(store, args, n - 1), store[n])
    ELSE Filtered(store, args, n - 1)

\* Mutant of ListCompare: the direction asked for is ignored.
ListCompare_AlwaysAscending(a, b, args) ==
    IF args.sortBy = "name" THEN NameRank(a.name) - NameRank(b.name)
    ELSE IF args.sortBy = "createdAt" THEN a.createdAt - b.createdAt
    ELSE IF args.sortBy = "updatedAt" THEN a.updatedAt - b.updatedAt
    ELSE 0

\* listTemplates: the sort callback (a, b) => sortOrder * (key(a) - key(b)).
ListCompare(a, b, args) ==
    LET sortOrder == IF args.sortOrder = "asc" THEN 1 ELSE -1
    IN  IF args.sortBy = "name" THEN sortOrder * (NameRank(a.name) - NameRank(b.name))
        ELSE IF args.sortBy = "createdAt" THEN sortOrder * (a.createdAt - b.createdAt)
        ELSE IF args.sortBy = "updatedAt" THEN sortOrder * (a.updatedAt - b.updatedAt)
        ELSE 0

\* Array.prototype.sort is stable: an element goes behind the elements that came
\* before it and do not compare greater.
RECURSIVE Sorted(_, _, _)
Sorted(seq, args, n) ==
    IF n = 0 THEN <<>>
    ELSE LET before == Sorted(seq, args, n - 1)
             x == seq[n]
             keep == {k \in 0..Len(before) :
                        \A j \in (k + 1)..Len(before) : ListCompare(before[j], x, args) > 0}
             at == CHOOSE k \in keep : \A j \in keep : k <= j
         IN  [i \in 1..n |-> IF i <= at THEN before[i]
                             ELSE IF i = at + 1 THEN x ELSE before[i - 1]]

\* listTemplates: the templates listed in the text of the result.
ListedTemplates(store, args) ==
    LET filtered == Filtered(store, args, Len(store))
    IN  Sorted(filtered, args, Len(filtered))

(***************************************************************************)
(* SpecStore: the template tools and generateImage on one server, their    *)
(* handlers interleaving at their awaits                                   *)
(***************************************************************************)

\* The number of tool calls of a behaviour.
MaxCalls == 2

\* The templates loaded at start-up, each from the file saveTemplateToFS would write.
LoadedTemplates ==
    [i \in DOMAIN StoredTemplates |-> Stamp(StoredTemplates[i], "loaded at start-up", 0, 0)]

LoadedFiles ==
    {[category |-> LoadedTemplates[i].category, id |-> LoadedTemplates[i].id,
      content |-> LoadedTemplates[i]] : i \in DOMAIN LoadedTemplates}

\* crypto.randomUUID(): an id no template has had.
RandomUUID(n) == "n" \o ToString(n)

\* The ids the calls name: those loaded at start-up (stored or deleted by now), those
\* stored now, and one that was never stored.
TargetIds == {"t1", "t2", "t9"} \cup {templates[i].id : i \in DOMAIN templates}

\* What the variables of generateImage and of the capability checks are to the
\* template tools; template is not among them, it may hold a stored object.
bystanderVars == <<params, mergedParams, promptResult, promptPc, extra, supportsSampling,
                   samplingCapabilities, server, imageParams, samplingRequest,
                   createMessageCalls, samplingOutcome, cancelled, lookedUp, toolResult,
                   pc>>

\* The args of the listTemplates handler for what the caller sent, after the
\* parameter schema set the defaults; given keeps what the caller sent.
ListParamsOf(given) ==
    [given |-> given,
     sortBy |-> WithDefault(given.sortBy, "createdAt"),
     sortOrder |-> WithDefault(given.sortOrder, "desc"),
     category |-> given.category,
     search |-> given.search,
     isActive |-> <<WithDefault(given.isActive, TRUE)>>]

\* What a caller of listTemplates sent; each field is Undefined or <<value>>.
ListGiven(sortBy, sortOrder, category, search, isActive) ==
    [sortBy |-> sortBy, sortOrder |-> sortOrder, category |-> category,
     search |-> search, isActive |-> isActive]

ListArgs ==
    {ListParamsOf(ListGiven(<<sortBy>>, <<"asc">>, Undefined, Undefined, Undefined)) :
        sortBy \in {"createdAt", "updatedAt"}}
    \cup {ListParamsOf(given) : given \in
            {ListGiven(Undefined, Undefined, Undefined, Undefined, Undefined),
             ListGiven(Undefined, Undefined, Undefined, Undefined, <<FALSE>>),
             ListGiven(Undefined, Undefined, <<"marketing">>, Undefined, <<TRUE>>),
             ListGiven(Undefined, Undefined, <<"">>, <<"">>, Undefined),
             ListGiven(<<"name">>, <<"asc">>, Undefined, <<"t1">>, Undefined),
             ListGiven(<<"name">>, <<"desc">>, Undefined, <<"loaded">>, Undefined)}}

CreateArgs ==
    {[name |-> name, description |-> "created by hand", category |-> "marketing",
      parameters |-> parameters] :
        name \in {"", "New"},
        parameters \in {[subject |-> Str("fox")], [style |-> Str("ink")]}}

\* The fields an updateTemplate call may give, each Undefined or <<value>>.
UpdatePatch(name, category, parameters, isActive) ==
    [name |-> name, description |-> Undefined, category |-> category,
     parameters |-> parameters, isActive |-> isActive]

UpdatePatches ==
    {UpdatePatch(Undefined, Undefined, Undefined, Undefined),
     UpdatePatch(<<"Renamed">>, Undefined, Undefined, Undefined),
     UpdatePatch(<<"">>, Undefined, Undefined, Undefined),
     UpdatePatch(Undefined, <<"marketing">>, Undefined, Undefined),
     UpdatePatch(Undefined, Undefined, <<[style |-> Str("ink")]>>, Undefined),
     UpdatePatch(Undefined, Undefined, Undefined, <<FALSE>>)}

\* The declarations the createTemplateFromImage calls come with.
StoreExtras ==
    {ExtraNoCapabilities, ExtraWith(SamplingPlainObject),
     ExtraWith(SamplingArray({"createMessage"})),
     ExtraWith(SamplingArray({"createMessage", "image"}))}

CreateFromImageArgs ==
    {[imageUrl |-> "/tmp/image.png", name |-> name, category |-> Undefined] :
        name \in {Undefined, <<"New">>}}

\* The analysis texts createMessage may answer with, as sequences of lines.
Analyses ==
    {<<[slot |-> "subject", value |-> "fox"], [slot |-> "style", value |-> "ink"]>>,
     <<[slot |-> "subject", value |-> "N/A"], [slot |-> "style", value |-> "ink"]>>,
     <<>>}

\* What createMessage may resolve with for an analysis request.
AnalysisResponses ==
    {ResponseNull,
     Response(<<"test-model">>, <<"assistant">>, Undefined)}
    \cup {Response(<<"test-model">>, <<"assistant">>,
                   <<Content("text", Undefined, Undefined, <<analysis>>)>>) :
            analysis \in Analyses}

\* The generateImage requests made next to the template tools.
StoreImageRequests ==
    LET omitted == [width |-> Undefined, height |-> Undefined, samplingSteps |-> Undefined]
    IN  {ImageParamsOf(<<"t1">>, Undefined, EmptyObject, omitted),
         ImageParamsOf(Undefined, Undefined, [subject |-> Str("dog")], omitted)}

StoreImageExtras ==
    {ExtraNoCapabilities, ExtraWith(SamplingArray({"createMessage", "image"}))}

\* What createMessage may resolve with for an image request, and reject with.
StoreImageResponses ==
    {Response(<<"test-model">>, <<"assistant">>,
              <<Content("image", <<"base64-data">>, <<"image/jpeg">>, Undefined)>>)}

StoreRejections == {ErrorOf("Error", "sampling failed")}

StoreInit ==
    /\ templates = LoadedTemplates
    /\ files = LoadedFiles
    /\ tasks = <<>>
    /\ storeResult = NotComputed
    /\ clock = 1
    /\ calls = 0
    /\ server \in {[sampling |-> "undefined"], [sampling |-> "createMessage"]}
    /\ imageParams = NotComputed
    /\ samplingRequest = Undefined
    /\ createMessageCalls = 0
    /\ samplingOutcome = NotComputed
    /\ cancelled = FALSE
    /\ lookedUp = NoTemplate
    /\ toolResult = NotComputed
    /\ pc = "idle"
    /\ extra = ExtraNull
    /\ supportsSampling = NotComputed
    /\ samplingCapabilities = NotComputed
    /\ PromptIdle

\* A template tool call settles without having suspended.
SettleAtOnce(op, args, entry, outcome) ==
    /\ storeResult' = Settlement(op, args, entry, 0, outcome)
    /\ calls' = calls + 1

\* A client calls listTemplates.
ListTemplates ==
    /\ calls < MaxCalls
    /\ \E args \in ListArgs :
         SettleAtOnce("listTemplates", args, Undefined,
                      Return(ToolResult(FALSE, ListedTemplates(templates, args), Undefined)))
    /\ UNCHANGED <<templates, files, tasks, clock, template, bystanderVars>>

\* A client calls getTemplate.
GetTemplate ==
    /\ calls < MaxCalls
    /\ \E id \in TargetIds, version \in {Undefined, <<2>>} :
         LET got == getTemplateById(templates, id, version)
             entry == FindById(templates, id)
         IN  SettleAtOnce("getTemplate", [templateId |-> id, version |-> version], entry,
                          IF got.kind = "throw"
                          THEN Return(ToolResult(TRUE, got.error.message, Undefined))
                          ELSE Return(ToolResult(FALSE, [json |-> got.value], Undefined)))
    /\ UNCHANGED <<templates, files, tasks, clock, template, bystanderVars>>

\* A client calls createTemplate: the handler up to its await of saveTemplateToFS,
\* or to its end when the new template fails validation.
CreateTemplate ==
    /\ calls < MaxCalls
    /\ \E args \in CreateArgs :
         LET newTemplate == NewTemplate(RandomUUID(calls + 1), args, clock)
         IN  IF ~TemplateSchemaAccepts(newTemplate)
             THEN /\ SettleAtOnce("createTemplate", args, Undefined,
                                  Return(ToolResult(TRUE, "failed to create the template",
                                                    Undefined)))
                  /\ UNCHANGED tasks
             ELSE /\ tasks' = Append(tasks, [op |-> "createTemplate", args |-> args,
                                             stage |-> "mkdir", tpl |-> newTemplate,
                                             path |-> FilePath(newTemplate),
                                             entry |-> Undefined, index |-> 0])
                  /\ calls' = calls + 1
                  /\ UNCHANGED storeResult
    /\ clock' = clock + 1
    /\ UNCHANGED <<templates, files, template, bystanderVars>>

\* A client calls updateTemplate: the handler up to its await of saveTemplateToFS, or
\* to its end when the id is not stored or the changed template fails validation.
UpdateTemplate ==
    /\ calls < MaxCalls
    /\ \E id \in TargetIds, patch \in UpdatePatches :
         LET args == [id |-> id] @@ patch
             templateIndex == FindIndex(templates, id)
             entry == templates[templateIndex]
             changed == UpdatedTemplate(entry, patch, clock)
         IN  IF templateIndex = 0
             THEN /\ SettleAtOnce("updateTemplate", args, Undefined,
                                  Return(ToolResult(TRUE, "the template does not exist",
                                                    Undefined)))
                  /\ UNCHANGED <<templates, tasks, template>>
             ELSE /\ templates' = MutateStore(templates, id, changed)
                  /\ template' = MutateLocal(template, id, changed)
                  /\ IF ~TemplateSchemaAccepts(changed)
                     THEN /\ SettleAtOnce("updateTemplate", args, <<entry>>,
                                          Return(ToolResult(TRUE,
                                                            "failed to update the template",
                                                            Undefined)))
                          /\ tasks' = MutateTasks(tasks, id, changed)
                     ELSE /\ tasks' = Append(MutateTasks(tasks, id, changed),
                                             [op |-> "updateTemplate", args |-> args,
                                              stage |-> "mkdir", tpl |-> changed,
                                              path |-> FilePath(changed),
                                              entry |-> <<entry>>, index |-> templateIndex])
                          /\ calls' = calls + 1
                          /\ UNCHANGED storeResult
    /\ clock' = clock + 1
    /\ UNCHANGED <<files, bystanderVars>>

\* A client calls deleteTemplate: the handler up to its await of deleteTemplateFromFS,
\* or to its end when the id is not stored.
DeleteTemplate ==
    /\ calls < MaxCalls
    /\ \E id \in TargetIds :
         LET args == [id |-> id]
             templateIndex == FindIndex(templates, id)
         IN  IF templateIndex = 0
             THEN /\ SettleAtOnce("deleteTemplate", args, Undefined,
                                  Return(ToolResult(TRUE, "the template does not exist",
                                                    Undefined)))
                  /\ UNCHANGED tasks
             ELSE /\ tasks' = Append(tasks, [op |-> "deleteTemplate", args |-> args,
                                             stage |-> "unlink",
                                             tpl |-> templates[templateIndex],
                                             path |-> FilePath(templates[templateIndex]),
                                             entry |-> <<templates[templateIndex]>>,
                                             index |-> templateIndex])
                  /\ calls' = calls + 1
                  /\ UNCHANGED storeResult
    /\ UNCHANGED <<templates, files, clock, template, bystanderVars>>

\* saveTemplateToFS: fs.mkdir resolves and fs.writeFile is called with the template
\* object as it is now.
MkdirResolves ==
    /\ \E i \in DOMAIN tasks :
         /\ tasks[i].stage = "mkdir"
         /\ files' = WriteFile(files, tasks[i].path, tasks[i].tpl)
         /\ tasks' = [tasks EXCEPT ![i].stage = "writeFile"]
    /\ UNCHANGED <<templates, storeResult, clock, calls, template, bystanderVars>>

\* saveTemplateToFS resolves: createTemplate pushes the new template, and both
\* handlers return what the template object holds now.
WriteFileResolves ==
    /\ \E i \in DOMAIN tasks :
         /\ tasks[i].stage = "writeFile"
         /\ templates' = IF tasks[i].op = "createTemplate"
                         THEN Append(templates, tasks[i].tpl)
                         ELSE templates
         /\ storeResult' =
               Settlement(tasks[i].op, tasks[i].args, tasks[i].entry, 0,
                          Return(ToolResult(FALSE, "done",
                                            <<[template |-> TemplateSummary(tasks[i].tpl)]>>)))
         /\ tasks' = Without(tasks, i)
    /\ UNCHANGED <<files, clock, calls, template, bystanderVars>>

\* deleteTemplateFromFS settles: fs.unlink removes the file and the handler splices
\* the store at the index it found before the await, or fs.unlink finds no file and
\* the handler returns the error.
UnlinkSettles ==
    /\ \E i \in DOMAIN tasks :
         /\ tasks[i].stage = "unlink"
         /\ IF FileExists(files, tasks[i].path)
            THEN /\ files' = Unlink(files, tasks[i].path)
                 /\ templates' = Splice(templates, tasks[i].index)
                 /\ storeResult' =
                       Settlement("deleteTemplate", tasks[i].args, tasks[i].entry, 0,
                                  Return(ToolResult(FALSE, "deleted",
                                                    <<[success |-> TRUE,
                                                       id |-> tasks[i].args.id]>>)))
            ELSE /\ storeResult' =
                       Settlement("deleteTemplate", tasks[i].args, tasks[i].entry, 0,
                                  Return(ToolResult(TRUE, "failed to delete the template",
                                                    Undefined)))
                 /\ UNCHANGED <<files, templates>>
         /\ tasks' = Without(tasks, i)
    /\ UNCHANGED <<clock, calls, template, bystanderVars>>

\* The catch clause of createTemplateFromImage: a TemplateError is rethrown, anything
\* else is wrapped into an INTERNAL_ERROR TemplateError.
CatchFromImage(error) ==
    IF error.name = "TemplateError" THEN error
    ELSE TemplateErrorWith("INTERNAL_ERROR", "failed to create the template from the image",
                           <<error>>)

\* A client calls createTemplateFromImage: the handler up to its await of the
\* analysis call, or to its end when it makes none.
CreateTemplateFromImage ==
    /\ calls < MaxCalls
    /\ \E given \in CreateFromImageArgs, ex \in StoreExtras :
         LET args == [extra |-> ex] @@ given
             capabilities == checkDetailedSamplingCapabilities(ex)
         IN  IF capabilities.kind = "throw"
             THEN /\ SettleAtOnce("createTemplateFromImage", args, Undefined,
                                  Throw(CatchFromImage(ErrorOf("TypeError",
                                                               capabilities.error))))
                  /\ UNCHANGED tasks
             ELSE IF ~(capabilities.value.supportsCreateMessage
                       /\ capabilities.value.supportsImages)
             THEN /\ SettleAtOnce("createTemplateFromImage", args, Undefined,
                                  Return(createTemplateFromImageWithoutSampling))
                  /\ UNCHANGED tasks
             ELSE IF server.sampling = "undefined"
             THEN /\ SettleAtOnce("createTemplateFromImage", args, Undefined,
                                  Throw(CatchFromImage(
                                      ErrorOf("Error", "the server does not support sampling"))))
                  /\ UNCHANGED tasks
             ELSE /\ tasks' = Append(tasks, [op |-> "createTemplateFromImage",
                                             args |-> args, stage |-> "createMessage",
                                             tpl |-> NoTemplate, path |-> Undefined,
                                             entry |-> Undefined, index |-> 0])
                  /\ calls' = calls + 1
                  /\ UNCHANGED storeResult
    /\ UNCHANGED <<templates, files, clock, template, bystanderVars>>

\* createTemplateFromImageWithSampling after handleSamplingRequest settled with
\* outcome: the new template, or the error thrown.
TemplateFromAnalysis(args, outcome, id, now) ==
    IF outcome.kind = "throw" THEN outcome
    ELSE IF \/ outcome.value.content = Undefined
            \/ outcome.value.content[1].text = Undefined
            \/ outcome.value.content[1].text[1] = <<>>
    THEN Throw(ErrorOf("Error", "image analysis failed: no valid analysis result"))
    ELSE LET parsed == parseAnalysisToTemplateParams(outcome.value.content[1].text[1])
             newTemplate == NewTemplateFromImage(id, args, parsed.value, now)
         IN  IF parsed.kind = "throw" THEN parsed
             ELSE IF ~TemplateSchemaAccepts(newTemplate)
             THEN Throw(ErrorOf("ZodError", "the template is not valid"))
             ELSE Return(newTemplate)

\* The handler of createTemplateFromImage from the settled analysis call to its end.
SettleAnalysis(i, outcome) ==
    LET made == TemplateFromAnalysis(tasks[i].args, outcome, RandomUUID(calls + 1), clock)
    IN  /\ IF made.kind = "throw"
           THEN /\ storeResult' = Settlement("createTemplateFromImage", tasks[i].args,
                                             Undefined, 1, Throw(CatchFromImage(made.error)))
                /\ UNCHANGED templates
           ELSE /\ templates' = Append(templates, made.value)
                /\ storeResult' =
                      Settlement("createTemplateFromImage", tasks[i].args, Undefined, 1,
                                 Return(ToolResult(FALSE, "created from the image",
                                                   <<[template |-> TemplateSummary(made.value),
                                                      analysis |-> outcome.value.content[1].text[1]]>>)))
        /\ tasks' = Without(tasks, i)
        /\ clock' = clock + 1
        /\ UNCHANGED <<files, calls, template, bystanderVars>>

\* The analysis call of a createTemplateFromImage resolves.
AnalysisResolves ==
    \E i \in DOMAIN tasks :
        /\ tasks[i].stage = "createMessage"
        /\ \E response \in AnalysisResponses : SettleAnalysis(i, HandleResolved(response))

\* The analysis call of a createTemplateFromImage rejects.
AnalysisRejects ==
    \E i \in DOMAIN tasks :
        /\ tasks[i].stage = "createMessage"
        /\ \E reason \in StoreRejections : SettleAnalysis(i, HandleRejected(reason))

\* A client calls generateImage while the template tools are in use.
GenerateImageOnStore ==
    /\ pc = "idle"
    /\ calls < MaxCalls
    /\ \E p \in StoreImageRequests, ex \in StoreImageExtras : GenerateImageWith(p, ex)
    /\ calls' = calls + 1
    /\ UNCHANGED <<files, tasks, storeResult, clock>>

\* The createMessage call of the generateImage request resolves.
ImageCompletionResolves ==
    /\ pc = "awaiting"
    /\ \E response \in StoreImageResponses :
         SettleSampling([kind |-> "resolved", value |-> response], HandleResolved(response))

\* The createMessage call of the generateImage request rejects.
ImageCompletionRejects ==
    /\ pc = "awaiting"
    /\ \E reason \in StoreRejections :
         SettleSampling([kind |-> "rejected", reason |-> reason], HandleRejected(reason))

StoreNext ==
    \/ ListTemplates
    \/ GetTemplate
    \/ CreateTemplate
    \/ UpdateTemplate
    \/ DeleteTemplate
    \/ CreateTemplateFromImage
    \/ MkdirResolves
    \/ WriteFileResolves
    \/ UnlinkSettles
    \/ AnalysisResolves
    \/ AnalysisRejects
    \/ GenerateImageOnStore
    \/ ImageCompletionResolves
    \/ ImageCompletionRejects
    \/ Respond

SpecStore == StoreInit /\ [][StoreNext]_vars

(***************************************************************************)
(* Properties of the template tools (checked under SpecStore)              *)
(***************************************************************************)

\* The last settled template tool call was op and returned a result without isError.
Succeeded(op) ==
    /\ storeResult # NotComputed
    /\ storeResult.op = op
    /\ storeResult.outcome.kind = "return"
    /\ ~storeResult.outcome.value.isError

\* The template object the last settled call returned in structuredContent.
ReturnedTemplate == storeResult.outcome.value.structuredContent[1].template

\* C18 (as claimed): a successful createTemplate returns version 1, and a successful
\* updateTemplate returns the id it was called with and the version that was stored
\* when it was called plus exactly 1.
C18_Versioning ==
    /\ Succeeded("createTemplate") => ReturnedTemplate.version = 1
    /\ Succeeded("updateTemplate") =>
          /\ ReturnedTemplate.id = storeResult.args.id
          /\ ReturnedTemplate.version = storeResult.entry[1].version + 1

\* C18, the part the code keeps: no step changes the id of a stored template, every
\* step keeps its version or adds exactly 1 to it, only the start of an
\* updateTemplate call adds 1, and createTemplate pushes its template with version 1.
C18_StoredVersions ==
    [][/\ \A i \in DOMAIN templates, j \in DOMAIN templates' :
            (templates'[j].id = templates[i].id) =>
               /\ templates'[j].version \in {templates[i].version, templates[i].version + 1}
               /\ (templates'[j].version # templates[i].version) => (calls' = calls + 1)
       /\ (Len(templates') > Len(templates)) =>
              (templates'[Len(templates')].version = 1)]_vars

\* C19 (as claimed): deleteTemplate called with the id of a stored template returns
\* a success and the store holds no template with that id afterwards; called with an
\* id that is not stored it returns the not-found error.
C19_DeleteRemoves ==
    (storeResult # NotComputed /\ storeResult.op = "deleteTemplate") =>
        IF storeResult.entry # Undefined
        THEN /\ Succeeded("deleteTemplate")
             /\ FindIndex(templates, storeResult.args.id) = 0
        ELSE storeResult.outcome.value.isError

\* C20 (as claimed): createTemplateFromImage makes its outbound call and returns a
\* new version-1 template only when the declaration has createMessage and image;
\* otherwise it makes no call and returns the guide with SAMPLING_NOT_SUPPORTED as a
\* result that is no error.
C20_FromImageBranch ==
    (storeResult # NotComputed /\ storeResult.op = "createTemplateFromImage") =>
        LET both == /\ Declares(storeResult.args.extra, "createMessage")
                    /\ Declares(storeResult.args.extra, "image")
        IN  IF both
            THEN Succeeded("createTemplateFromImage") =>
                    /\ storeResult.outbound = 1
                    /\ ReturnedTemplate.version = 1
            ELSE /\ storeResult.outbound = 0
                 /\ Succeeded("createTemplateFromImage")
                 /\ storeResult.outcome.value.structuredContent[1].error
                       = "SAMPLING_NOT_SUPPORTED"

\* C20, the part the code keeps: for every declaration that is absent or well-formed
\* the branch is as claimed.
C20_WellFormedDeclarations ==
    (/\ storeResult # NotComputed
     /\ storeResult.op = "createTemplateFromImage"
     /\ \/ NoCapabilities(storeResult.args.extra)
        \/ storeResult.args.extra.sampling.shape # "plainObject")
      => C20_FromImageBranch

\* C20, the part the code keeps: a createTemplateFromImage call changes the store
\* only by pushing the version-1 template it returns, and a call that fails or
\* returns the guide leaves the store as it was.
C20_StoreEffect ==
    [][(/\ storeResult' # NotComputed
        /\ storeResult'.op = "createTemplateFromImage"
        /\ \/ Len(tasks') < Len(tasks)
           \/ calls' = calls + 1 /\ Len(tasks') = Len(tasks) /\ pc' = pc) =>
          IF /\ storeResult'.outcome.kind = "return"
             /\ storeResult'.outcome.value.structuredContent # Undefined
             /\ "template" \in DOMAIN storeResult'.outcome.value.structuredContent[1]
          THEN /\ Len(templates') = Len(templates) + 1
               /\ \A i \in DOMAIN templates : templates'[i] = templates[i]
               /\ templates'[Len(templates')].version = 1
               /\ templates'[Len(templates')].id
                     = storeResult'.outcome.value.structuredContent[1].template.id
          ELSE templates' = templates]_vars

(***************************************************************************)
(* Further properties of generateImage (checked under Spec)                *)
(***************************************************************************)

\* C21 (as claimed): once the transport has cancelled a request whose createMessage
\* call was pending, the call is pending no more and the request does not settle
\* with a response.
C21_CancellationPropagates ==
    cancelled =>
        /\ pc # "awaiting"
        /\ Settled => toolResult.kind = "throw"

\* C22 (as claimed): every INTERNAL_ERROR generateImage throws carries the error
\* that caused it in details.
C22_InternalErrorKeepsCause ==
    (Settled /\ FailedWith("INTERNAL_ERROR")) => toolResult.error.details # Undefined

\* C22, the part the code keeps: an INTERNAL_ERROR raised by the catch around the
\* template lookup carries its cause.
C22_LoadFailureKeepsCause ==
    (Settled /\ FailedWith("INTERNAL_ERROR") /\ promptResult = NotComputed) =>
        toolResult.error.details # Undefined

\* What the caller asked for: the number sent, or the documented default.
Requested(name, default) ==
    IF imageParams.given[name] = Undefined THEN default ELSE imageParams.given[name][1]

\* The width, height and samplingSteps the caller asked for.
RequestedParameters ==
    [width |-> Requested("width", 512), height |-> Requested("height", 512),
     samplingSteps |-> Requested("samplingSteps", 20)]

\* The negative prompt generatePrompt assembled, Undefined when it assembled none.
AssembledNegativePrompt ==
    IF "negativePrompt" \in DOMAIN promptResult.value
    THEN <<promptResult.value.negativePrompt>> ELSE Undefined

\* C23: the request handed to createMessage holds exactly one user text message with
\* the assembled prompt, and metadata with the assembled negative prompt and the
\* width, height and samplingSteps asked for (512, 512 and 20 when omitted); every
\* response, image or text-only, echoes the same three numbers in
\* structuredContent.parameters.
C23_OutboundRequestContent ==
    /\ samplingRequest # Undefined =>
          LET request == samplingRequest[1]
          IN  /\ Len(request.messages) = 1
              /\ request.messages[1].role = "user"
              /\ request.messages[1].content.type = "text"
              /\ request.messages[1].content.text = promptResult.value.prompt
              /\ request.metadata.negativePrompt = AssembledNegativePrompt
              /\ request.metadata.width = RequestedParameters.width
              /\ request.metadata.height = RequestedParameters.height
              /\ request.metadata.samplingSteps = RequestedParameters.samplingSteps
    /\ (Settled /\ toolResult.kind = "return") =>
          toolResult.value.structuredContent.parameters = RequestedParameters

\* A request that sent the width only and carries a negative prompt settled with the
\* image after its outbound call.
C23_Witness ==
    /\ Settled
    /\ toolResult.kind = "return"
    /\ ~TextOnly
    /\ samplingRequest # Undefined
    /\ imageParams.given.width = <<64>>
    /\ imageParams.given.height = Undefined
    /\ samplingRequest[1].metadata.height = 512
    /\ samplingRequest[1].metadata.negativePrompt # Undefined

\* A request that sent none of the three numbers settled with the text-only response.
C23_WitnessTextOnly ==
    /\ Settled
    /\ toolResult.kind = "return"
    /\ TextOnly
    /\ imageParams.given.width = Undefined
    /\ toolResult.value.structuredContent.parameters.samplingSteps = 20

\* The stored template with the id, as the store holds it now.
StoredNow(id) == templates[CHOOSE i \in DOMAIN templates : templates[i].id = id]

\* C24: a successful response, image or text-only, carries usedTemplate with the id,
\* name and version of the stored template the request named when the request gave a
\* template id (a non-empty one), and no usedTemplate when it gave none.
C24_TemplateProvenance ==
    (Settled /\ toolResult.kind = "return") =>
        LET used == toolResult.value.structuredContent.usedTemplate
        IN  IF TemplateIdGiven(imageParams)
            THEN /\ used # Undefined
                 /\ \E i \in DOMAIN templates : templates[i].id = imageParams.templateId[1]
                 /\ used[1].id = imageParams.templateId[1]
                 /\ used[1].name = StoredNow(imageParams.templateId[1]).name
                 /\ used[1].version = StoredNow(imageParams.templateId[1]).version
            ELSE used = Undefined

\* A request naming t2 (version 2) with its own subject settled with the image.
C24_Witness ==
    /\ Settled
    /\ toolResult.kind = "return"
    /\ ~TextOnly
    /\ imageParams.templateId = <<"t2">>
    /\ toolResult.value.structuredContent.usedTemplate[1].version = 2

(***************************************************************************)
(* Further properties of the template tools (checked under SpecStore)      *)
(***************************************************************************)

\* The step is a listTemplates call (the handler never suspends).
ListStep ==
    /\ calls' = calls + 1
    /\ Len(tasks') = Len(tasks)
    /\ pc' = pc
    /\ storeResult' # NotComputed
    /\ storeResult'.op = "listTemplates"

\* The template passes the filters the caller sent: isActive (true when omitted), the
\* category when a non-empty one was sent, and the search term, when a non-empty one
\* was sent, within the name or the description regardless of case.
Matches(tpl, given) ==
    /\ tpl.isActive = (IF given.isActive = Undefined THEN TRUE ELSE given.isActive[1])
    /\ (given.category # Undefined /\ given.category[1] # "") =>
          (tpl.category = given.category[1])
    /\ (given.search # Undefined /\ given.search[1] # "") =>
          \/ Contains(ToLowerCase(tpl.name), ToLowerCase(given.search[1]))
          \/ Contains(ToLowerCase(tpl.description), ToLowerCase(given.search[1]))

\* The key listTemplates sorts by.
SortKey(tpl, sortBy) ==
    CASE sortBy = "name" -> NameRank(tpl.name)
      [] sortBy = "createdAt" -> tpl.createdAt
      [] sortBy = "updatedAt" -> tpl.updatedAt

\* The list is ordered by the key and in the direction the caller sent (createdAt and
\* descending when omitted).
InOrder(listed, given) ==
    LET sortBy == IF given.sortBy = Undefined THEN "createdAt" ELSE given.sortBy[1]
        ascending == given.sortOrder # Undefined /\ given.sortOrder[1] = "asc"
    IN  \A i \in 1..(Len(listed) - 1) :
            IF ascending
            THEN SortKey(listed[i], sortBy) <= SortKey(listed[i + 1], sortBy)
            ELSE SortKey(listed[i], sortBy) >= SortKey(listed[i + 1], sortBy)

C25_WitnessSorted ==
    /\ storeResult # NotComputed
    /\ storeResult.op = "listTemplates"
    /\ storeResult.args.given.sortBy = <<"name">>
    /\ storeResult.args.given.sortOrder = <<"desc">>
    /\ Len(storeResult.outcome.value.text) = 2
    /\ storeResult.outcome.value.text[1].name = "T2"

\* The step ends a deleteTemplate call with a success.
DeleteSucceeds ==
    /\ Len(tasks') < Len(tasks)
    /\ storeResult' # NotComputed
    /\ storeResult'.op = "deleteTemplate"
    /\ storeResult'.outcome.kind = "return"
    /\ ~storeResult'.outcome.value.isError

\* C26 (as claimed): a deleteTemplate(id) that reports success leaves the store
\* without a template of that id and with every other template it held.
C26_DeleteHitsItsTarget ==
    [][DeleteSucceeds =>
          /\ FindIndex(templates', storeResult'.args.id) = 0
          /\ \A i \in DOMAIN templates :
                (templates[i].id # storeResult'.args.id) =>
                   \E j \in DOMAIN templates' : templates'[j] = templates[i]]_vars

\* The step ends an updateTemplate call on a stored template with an error result.
UpdateFails ==
    /\ \/ Len(tasks') < Len(tasks)
       \/ calls' = calls + 1 /\ Len(tasks') = Len(tasks) /\ pc' = pc
    /\ storeResult' # NotComputed
    /\ storeResult'.op = "updateTemplate"
    /\ storeResult'.entry # Undefined
    /\ storeResult'.outcome.kind = "return"
    /\ storeResult'.outcome.value.isError

\* C27 (as claimed): when an updateTemplate call on a stored template ends with an
\* error, the store holds the template exactly as it was when the call began.
C27_FailedUpdateChangesNothing ==
    [][UpdateFails =>
          /\ FindIndex(templates', storeResult'.args.id) # 0
          /\ templates'[FindIndex(templates', storeResult'.args.id)]
                = storeResult'.entry[1]]_vars

\* The files written for the template with the id.
FilesOf(id) == {f \in files : f.id = id}

\* The store and the files agree: every stored template has one file, under its
\* category, holding what the store holds, and every file belongs to a stored template.
StoreAndFilesAgree ==
    /\ \A i \in DOMAIN templates :
          FilesOf(templates[i].id)
             = {[category |-> templates[i].category, id |-> templates[i].id,
                 content |-> templates[i]]}
    /\ \A f \in files : FindIndex(templates, f.id) # 0

\* C28 (as claimed): when the last call to settle was a successful createTemplate,
\* createTemplateFromImage, updateTemplate or deleteTemplate and no call is pending,
\* the store and the files agree.
C28_StoreAndFilesAgree ==
    (/\ tasks = <<>>
     /\ \/ Succeeded("createTemplate")
        \/ Succeeded("createTemplateFromImage") /\ storeResult.outbound = 1
        \/ Succeeded("updateTemplate")
        \/ Succeeded("deleteTemplate"))
      => StoreAndFilesAgree

\* C28, the part the code keeps: after one successful createTemplate or
\* deleteTemplate, made alone on the store as loaded, the store and the files agree.
C28_CreateAndDeleteAgree ==
    (/\ tasks = <<>>
     /\ calls = 1
     /\ Succeeded("createTemplate") \/ Succeeded("deleteTemplate"))
      => StoreAndFilesAgree

\* C29 (as claimed): the usedTemplate of a generateImage response names the id, name
\* and version the template had when the request looked it up and merged its
\* defaults into the prompt, whatever ran while the request was suspended.
C29_ProvenanceMatchesPrompt ==
    (Settled /\ toolResult.kind = "return" /\ lookedUp # NoTemplate) =>
        /\ toolResult.value.structuredContent.prompt
              = generatePrompt(FinalParams(imageParams, lookedUp), lookedUp).value.prompt
        /\ toolResult.value.structuredContent.usedTemplate
              = <<[id |-> lookedUp.id, name |-> lookedUp.name, version |-> lookedUp.version]>>

\* C30: no step of a generateImage request (its start, the settling of its outbound
\* call, the delivery of its result) changes the template store or the template
\* files, and the params and extra the caller sent stay as sent while the request is
\* suspended.
C30_GenerateImageReadOnly ==
    [][(pc' # pc) =>
          /\ templates' = templates
          /\ files' = files
          /\ (pc = "awaiting") => (imageParams' = imageParams /\ extra' = extra)]_vars

\* A generateImage request that named a stored template and made its outbound call
\* has settled with a response, next to the store as loaded.
C30_Witness ==
    /\ Settled
    /\ toolResult.kind = "return"
    /\ lookedUp # NoTemplate
    /\ samplingRequest # Undefined
    /\ templates = LoadedTemplates
    /\ files = LoadedFiles

====
